---- MODULE Spec2Model ----
(***************************************************************************)
(* Model of the two-motor drive of the Robot OS: lib/motor_v2.py (Motor)   *)
(* and lib/pid.py (PID), with lib/enums.py (Direction, Velocity,           *)
(* SlewRate).                                                              *)
(*                                                                         *)
(* Numbers.  Python floats are modelled in fixed point:                    *)
(*   power, power ratio, slew ratio, PID output : thousandths (0.99 = 990) *)
(*   speed (argument of ahead/astern) and velocity : units of 1 (0..100)   *)
(* A product or quotient with the power ratio is rounded toward zero to a  *)
(* thousandth.                                                             *)
(***************************************************************************)
EXTENDS Integers, Sequences, FiniteSets, TLC

\* ------------------------------------------------------------------ bounds
\* the largest number of calls the users of the motors make in one behaviour
MaxCalls == 3
\* the largest number of _compute ticks of one step_to run
MaxTicks == 2
\* the largest number of pulses the encoder of one motor delivers
MaxPulses == 2
\* the same where only the sampling of the velocity is followed
MaxSamples == 3

\* ----------------------------------------------------------- configuration
\* ros:motors:pid of the configuration: kp, ki, kd (thousandths of power per
\* unit of velocity) and clip_limit (thousandths)
Kp == 10
Ki == 1
Kd == 2
ClipLimit == 500
\* ros:motors:sample_rate, the pulses per velocity measurement
SampleRate == 1
MaxReads == 8
MaxCloses == 2
MaxGamepadCalls == 8

\* ------------------------------------------------------- program constants
\* self._motor_power_limit = 0.99
MotorPowerLimit == 990
\* the power jump threshold of set_motor_power, 0.3
JumpThreshold == 300
\* the retry budget of get_current_power_level, 20 reads
RetryLimit == 20
\* overstep = 0.001 of accelerate
Overstep == 1
\* SlewRate.SLOWER.ratio = 0.03, NORMAL 0.08, FAST 0.20
SlewSlowerRatio == 30
SlewNormalRatio == 80
SlewFastRatio == 200
\* Velocity.STOP.value and Velocity.SLOW.value
VelocityStop == 0
VelocitySlow == 30

\* ------------------------------------------------------------------ inputs
\* the Motor objects, named by the orientation argument of their constructor
Motors == {"PORT", "STBD"}
\* the values set_max_power_ratio is called with (0.5 and 1.0)
RatioChoices == {500, 1000}
\* the power levels set_motor_power is called with
LevelChoices == {-1000, -500, -200, 200, 500, 1000}
\* the speeds ahead and astern are called with
SpeedChoices == {50}
\* how many reads of the driver report "not yet available" (None) before a
\* reading is available, for one call of get_current_power_level
FailChoices == {0, RetryLimit}
\* the same in the step_to runs: the driver answers a read at once
Answering == {0}
\* the same for the calls of get_current_power_level themselves: the first,
\* the second, the last read answers, or none
ReadChoices == {0, 1, RetryLimit - 1, RetryLimit}
\* the pulses the rotary encoder's decoder delivers
PulseChoices == {-1, 1}
\* the magnitudes of a velocity measurement
SpeedMeasured == {VelocitySlow}
\* the target velocities step_to and _compute are called with
TargetChoices == {VelocityStop, VelocitySlow}
\* the step counts set_step_limit is called with
StepChoices == {2}
Directions == {"FORWARD", "REVERSE"}
\* the direction arguments of the PID's operations: a Direction, or a value
\* that is neither Direction.FORWARD nor Direction.REVERSE
DirectionArgs == Directions \cup {"None"}

\* max_power_ratio before set_max_power_ratio has been called: the attribute
\* does not exist (Motor.__init__ does not set it)
Unset == 0

VARIABLES
    tb,                 \* the ThunderBorg driver: power of channel 1 and 2
    TB,                 \* the module-level name TB of motor_v2
    reverse_motor_orientation,   \* configuration flag
    reverse_encoder_orientation, \* configuration flag
    orientation,        \* self._orientation of each motor
    decoder,            \* whether the motor's Decoder callback is registered
    enable_slew,        \* configuration flag of the PID section
    enable_p,           \* configuration flag of the PID section
    enable_i,           \* configuration flag of the PID section
    enable_d,           \* configuration flag of the PID section
    slew_enabled,       \* whether each PID's slew limiter is enabled
    slewlimiter,        \* each PID's slew limiter: rate limit, started, baseline
    rosd,               \* the RosDaemon: switch state read last, LED, its ROS
    ros,                \* the ROS instance of ros.py: _closing, _active, close() calls
    gamepad,            \* the Gamepad: _enabled, _closing, _closed, _thread
    max_power_ratio,    \* self._max_power_ratio, Unset until set
    max_power,          \* self._max_power
    max_driving_power,  \* self._max_driving_power
    interrupt,          \* self._interrupt
    steps,              \* self._steps
    steps_begin,        \* self._steps_begin
    velocity,           \* self._velocity
    max_velocity,       \* self._max_velocity
    acc,                \* each motor's accelerate() call in progress
    last_error,         \* PID._last_error
    sum_errors,         \* PID._sum_errors
    step_limit,         \* PID._step_limit
    run,                \* each PID's step_to() call in progress
    ledger,             \* the pulses delivered to each motor since its step goal was set
    calls,              \* number of calls the users have made so far
    last                \* the call or step that was made last

driverVars == <<tb, TB>>
cfgVars == <<reverse_motor_orientation, reverse_encoder_orientation, orientation,
             decoder, enable_slew, enable_p, enable_i, enable_d,
                   rosd, ros, gamepad, slew_enabled,
             slewlimiter>>
powerVars == <<max_power, max_driving_power>>
encVars == <<steps, steps_begin, velocity, max_velocity>>
pidVars == <<last_error, sum_errors, step_limit>>
runVars == <<run, ledger>>

vars == <<tb, TB, reverse_motor_orientation, reverse_encoder_orientation,
          orientation, decoder, enable_slew, enable_p, enable_i, enable_d,
                   rosd, ros, gamepad,
          slew_enabled, slewlimiter, max_power_ratio, max_power, max_driving_power,
          interrupt,
          steps, steps_begin, velocity, max_velocity, acc, last_error,
          sum_errors, step_limit, run, ledger, calls, last>>

\* ----------------------------------------------------------------- helpers
Abs(x) == IF x < 0 THEN -x ELSE x

Max(a, b) == IF a >= b THEN a ELSE b

\* x * n / d rounded toward zero
MulDiv(x, n, d) == IF x * n >= 0 THEN (x * n) \div d ELSE -((-(x * n)) \div d)

\* the other orientation
Swap(o) == IF o = "PORT" THEN "STBD" ELSE "PORT"

\* self._orientation as Motor.__init__ establishes it
InitOrientation(o, reverse) == IF reverse THEN Swap(o) ELSE o

\* the driver channel a motor commands and reads: SetMotor1/GetMotor1 for
\* PORT, SetMotor2/GetMotor2 otherwise
\* every motor on the first channel of the driver
ChannelOne(m) == 1

Channel(m) == IF orientation[m] = "PORT" THEN 1 ELSE 2

\* the record of the last call: operation, motor, argument, the path taken
\* (res), what the caller receives (ret), the driver power of the motor's
\* channel before the call (pre); reads is the number of reads of the driver
\* a call of get_current_power_level made
Call(op, m, arg, res, ret) ==
    [op |-> op, m |-> m, arg |-> arg, res |-> res, ret |-> ret,
     pre |-> tb[Channel(m)], cur |-> 0, reads |-> 0, prev |-> "none", prevm |-> m,
     prevpre |-> 0]

\* the same for set_motor_power, with the reading cur its call of
\* get_current_power_level returned, and the operation, motor and pre of the
\* call before it
CallAfter(op, m, arg, res, ret, cur) ==
    [op |-> op, m |-> m, arg |-> arg, res |-> res, ret |-> ret,
     pre |-> tb[Channel(m)], cur |-> cur, reads |-> 0, prev |-> last.op,
     prevm |-> last.m, prevpre |-> last.pre]

\* a Python bool in the record of the last call
Py(b) == IF b THEN "True" ELSE "False"

\* the motor's control thread is inside neither accelerate() nor step_to()
Free(m) == acc[m].pc = "idle" /\ run[m].pc = "idle"

\* ------------------------------------------------- get_current_power_level
\* the loop of get_current_power_level: value is {} for None, fails is the
\* number of reads that report None before the driver answers
RECURSIVE ReadLoopOneMore(_, _, _, _)
\* the loop with the retry budget off by one: count <= 20
ReadLoopOneMore(ch, value, count, fails) ==
    IF value = {} /\ count <= RetryLimit
    THEN ReadLoopOneMore(ch, IF count + 1 > fails THEN {tb[ch]} ELSE {}, count + 1, fails)
    ELSE [value |-> value, count |-> count]

RECURSIVE ReadLoop(_, _, _, _)
ReadLoop(ch, value, count, fails) ==
    IF value = {} /\ count < RetryLimit
    THEN ReadLoop(ch, IF count + 1 > fails THEN {tb[ch]} ELSE {}, count + 1, fails)
    ELSE [value |-> value, count |-> count]

GetCurrentPowerLevel(m, fails) ==
    LET r == ReadLoop(Channel(m), {}, 0, fails)
    IN  IF r.value = {} THEN 0 ELSE CHOOSE v \in r.value : TRUE

\* a call of get_current_power_level by a user of the motor; arg of its
\* record is the number of reads that report None before the driver answers
GetCurrentPowerLevelCall(m, fails) ==
    /\ calls < MaxCalls
    /\ \E r \in {ReadLoop(Channel(m), {}, 0, fails)} :
           last' = [Call("get_current_power_level", m, fails,
                         IF r.value = {} THEN "fallback" ELSE "read", "float")
                    EXCEPT !.cur = GetCurrentPowerLevel(m, fails),
                           !.reads = r.count]
    /\ calls' = calls + 1
    /\ UNCHANGED <<driverVars, cfgVars, max_power_ratio, powerVars, interrupt, encVars,
                   acc, pidVars, runVars>>

\* is_in_motion(): get_current_power_level() > 0.0
IsInMotion(m, fails) == GetCurrentPowerLevel(m, fails) > 0

\* is_stopped(): get_current_power_level() == 0.0
IsStopped(m, fails) == GetCurrentPowerLevel(m, fails) = 0

\* a call of is_in_motion by a user of the motor
IsInMotionCall(m, fails) ==
    /\ calls < MaxCalls
    /\ last' = [Call("is_in_motion", m, fails, "returned", Py(IsInMotion(m, fails)))
                EXCEPT !.cur = GetCurrentPowerLevel(m, fails)]
    /\ calls' = calls + 1
    /\ UNCHANGED <<driverVars, cfgVars, max_power_ratio, powerVars, interrupt, encVars,
                   acc, pidVars, runVars>>

\* a call of is_stopped by a user of the motor
IsStoppedCall(m, fails) ==
    /\ calls < MaxCalls
    /\ last' = [Call("is_stopped", m, fails, "returned", Py(IsStopped(m, fails)))
                EXCEPT !.cur = GetCurrentPowerLevel(m, fails)]
    /\ calls' = calls + 1
    /\ UNCHANGED <<driverVars, cfgVars, max_power_ratio, powerVars, interrupt, encVars,
                   acc, pidVars, runVars>>

\* --------------------------------------------------------- set_motor_power
\* the safety checks of set_motor_power
\* the upper check against the full scale 1.0 instead of the power limit
TooHighFullScale(level) == level > 1000

TooHigh(level) == level > MotorPowerLimit

TooLow(level) == level < -MotorPowerLimit

\* the jump measured between the magnitudes instead of the signed values
PosNegJumpMagnitudes(cur, level) ==
    Abs(cur) - Abs(level) > JumpThreshold /\ cur > 0 /\ level < 0

PosNegJump(cur, level) == Abs(cur - level) > JumpThreshold /\ cur > 0 /\ level < 0

NegPosJump(cur, level) == Abs(cur - level) > JumpThreshold /\ cur < 0 /\ level > 0

\* the path set_motor_power(level) takes when its read of the driver gives cur
PowerOutcome(m, level, cur) ==
    IF TooHigh(level) THEN "too_high"
    ELSE IF TooLow(level) THEN "too_low"
    ELSE IF PosNegJump(cur, level) THEN "pos_neg_jump"
    ELSE IF NegPosJump(cur, level) THEN "neg_pos_jump"
    ELSE IF max_power_ratio[m] = Unset THEN "AttributeError"
    ELSE "set"

\* what the caller of set_motor_power receives on each path: every return
\* statement of set_motor_power is a bare return, and so is its end
PowerReturn(res) == IF res = "AttributeError" THEN "AttributeError" ELSE "None"

Rejections == {"too_high", "too_low", "pos_neg_jump", "neg_pos_jump"}

\* _driving_power = float(power_level * self._max_power_ratio)
DrivingPower(m, level) == MulDiv(level, max_power_ratio[m], 1000)

\* an out-of-range level clamped to the power limit instead of dropped
PowerTbClamped(m, level, res) ==
    IF res = "set" THEN [tb EXCEPT ![Channel(m)] = DrivingPower(m, level)]
    ELSE IF res = "too_high" THEN [tb EXCEPT ![Channel(m)] = MotorPowerLimit]
    ELSE IF res = "too_low" THEN [tb EXCEPT ![Channel(m)] = -MotorPowerLimit]
    ELSE tb

\* the driver after set_motor_power(level) on path res
PowerTb(m, level, res) ==
    IF res = "set" THEN [tb EXCEPT ![Channel(m)] = DrivingPower(m, level)] ELSE tb

\* self._max_power after set_motor_power(level) on path res
PowerMax(m, level, res) ==
    IF res = "set" THEN Max(level, max_power[m]) ELSE max_power[m]

\* self._max_driving_power after set_motor_power(level) on path res
PowerMaxDriving(m, level, res) ==
    IF res = "set" THEN Max(Abs(DrivingPower(m, level)), max_driving_power[m])
    ELSE max_driving_power[m]

\* what set_motor_power(level) on path res does to the driver and the trackers
ApplyPower(m, level, res) ==
    /\ tb' = PowerTb(m, level, res)
    /\ max_power' = [max_power EXCEPT ![m] = PowerMax(m, level, res)]
    /\ max_driving_power' =
           [max_driving_power EXCEPT ![m] = PowerMaxDriving(m, level, res)]

\* a call of set_motor_power(level) by a user of the motor
SetMotorPower(m, level, fails) ==
    /\ calls < MaxCalls
    /\ Free(m)
    /\ \E cur \in {GetCurrentPowerLevel(m, fails)} :
       \E res \in {PowerOutcome(m, level, cur)} :
           /\ ApplyPower(m, level, res)
           /\ last' = CallAfter("set_motor_power", m, level, res, PowerReturn(res), cur)
    /\ calls' = calls + 1
    /\ UNCHANGED <<TB, cfgVars, max_power_ratio, interrupt, encVars, acc, pidVars, runVars>>

\* ------------------------------------------------------ small operations
\* set_max_power_ratio(ratio), called once, when the motor is configured
SetMaxPowerRatio(m, ratio) ==
    /\ max_power_ratio[m] = Unset
    /\ Free(m)
    /\ max_power_ratio' = [max_power_ratio EXCEPT ![m] = ratio]
    /\ last' = Call("set_max_power_ratio", m, ratio, "returned", "None")
    /\ UNCHANGED <<driverVars, cfgVars, powerVars, interrupt, encVars, acc, pidVars,
                   runVars, calls>>

\* stop() with the test of the orientation inverted: the zero goes to the
\* other channel
StopOther(m) ==
    /\ calls < MaxCalls
    /\ tb' = [tb EXCEPT ![3 - Channel(m)] = 0]
    /\ last' = Call("stop", m, 0, "returned", "None")
    /\ calls' = calls + 1
    /\ UNCHANGED <<TB, cfgVars, max_power_ratio, powerVars, interrupt, encVars, acc,
                   pidVars, runVars>>

\* stop() that zeroes both channels of the driver
StopBoth(m) ==
    /\ calls < MaxCalls
    /\ tb' = [c \in {1, 2} |-> 0]
    /\ last' = Call("stop", m, 0, "returned", "None")
    /\ calls' = calls + 1
    /\ UNCHANGED <<TB, cfgVars, max_power_ratio, powerVars, interrupt, encVars, acc,
                   pidVars, runVars>>

\* stop(): the zero-power command to the motor's own channel
Stop(m) ==
    /\ calls < MaxCalls
    /\ tb' = [tb EXCEPT ![Channel(m)] = 0]
    /\ last' = Call("stop", m, 0, "returned", "None")
    /\ calls' = calls + 1
    /\ UNCHANGED <<TB, cfgVars, max_power_ratio, powerVars, interrupt, encVars, acc,
                   pidVars, runVars>>

ResetInterrupt(m) ==
    /\ calls < MaxCalls
    /\ interrupt' = [interrupt EXCEPT ![m] = FALSE]
    /\ last' = Call("reset_interrupt", m, 0, "returned", "None")
    /\ calls' = calls + 1
    /\ UNCHANGED <<driverVars, cfgVars, max_power_ratio, powerVars, encVars, acc,
                   pidVars, runVars>>

\* ------------------------------------------------------------------ cancel
\* The name TB as the body of the static cancel() sees it after its try
\* statement.  cancel() assigns TB (in its except clause) and has no global
\* statement, so TB is a local name of cancel(): "try: TB" reads an unbound
\* local, the UnboundLocalError (a NameError) is caught and the local TB is
\* set to None, whatever the module-level TB is.
CancelLocalTB == "None"

Cancel(m) ==
    /\ calls < MaxCalls
    /\ tb' = IF CancelLocalTB # "None" THEN [c \in {1, 2} |-> 0] ELSE tb
    /\ last' = Call("cancel", m, 0,
                    IF CancelLocalTB # "None" THEN "cancelled" ELSE "warned", "None")
    /\ calls' = calls + 1
    /\ UNCHANGED <<TB, cfgVars, max_power_ratio, powerVars, interrupt, encVars, acc,
                   pidVars, runVars>>

\* interrupt() on a flag that the motors share
InterruptShared(m) ==
    /\ calls < MaxCalls
    /\ interrupt' = [o \in Motors |-> TRUE]
    /\ last' = Call("interrupt", m, 0, "returned", "None")
    /\ calls' = calls + 1
    /\ UNCHANGED <<driverVars, cfgVars, max_power_ratio, powerVars, encVars, acc,
                   pidVars, runVars>>

\* interrupt(): self._interrupt = True
Interrupt(m) ==
    /\ calls < MaxCalls
    /\ interrupt' = [interrupt EXCEPT ![m] = TRUE]
    /\ last' = Call("interrupt", m, 0, "returned", "None")
    /\ calls' = calls + 1
    /\ UNCHANGED <<driverVars, cfgVars, max_power_ratio, powerVars, encVars, acc,
                   pidVars, runVars>>

\* -------------------------------------------------------------- accelerate
AccIdle == [pc |-> "idle", op |-> "none", speed |-> 0, ramp |-> <<>>, dpl |-> 0]

\* the length of numpy.arange(start, stop, step): ceil((stop - start) / step)
ArangeLen(start, stop, step) ==
    IF step > 0
    THEN (IF stop > start THEN (stop - start + step - 1) \div step ELSE 0)
    ELSE (IF stop < start THEN (start - stop + (-step) - 1) \div (-step) ELSE 0)

\* numpy.arange(start, stop, step): start + i * step
Arange(start, stop, step) ==
    [i \in 1..ArangeLen(start, stop, step) |-> start + (i - 1) * step]

\* the ratio of the SlewRate that halt, brake, ahead and astern pass on
SlewRatio(op) ==
    CASE op = "halt" -> SlewFastRatio
      [] op = "brake" -> SlewSlowerRatio
      [] OTHER -> SlewNormalRatio

\* the speed that halt, brake, ahead(speed), astern(speed), stepAhead(speed,
\* steps) and stepAstern(speed, steps) pass on
AccelSpeed(op, speed) ==
    CASE op = "halt" -> 0
      [] op = "brake" -> 0
      [] op = "astern" -> -speed
      [] op = "stepAstern" -> speed
      [] OTHER -> speed

\* power * ( 1.0 / self._max_power_ratio )
Unscaled(m, power) == MulDiv(power, 1000, max_power_ratio[m])

\* the step powers of the loop of accelerate, from current to desired
Ramp(current, desired, ratio) ==
    IF current < desired
    THEN Arange(current, desired + Overstep, ratio)
    ELSE Arange(current, desired - Overstep, -ratio)

\* accelerate(speed, slew_rate, steps) up to its loop, as op calls it; the
\* argument steps is read nowhere in accelerate
AccelerateBody(m, op, speed, fails) ==
    /\ calls < MaxCalls
    /\ interrupt' = [interrupt EXCEPT ![m] = FALSE]
    /\ \E cur \in {GetCurrentPowerLevel(m, fails)} :
       \E desired \in {AccelSpeed(op, speed) * 10} :
           IF max_power_ratio[m] = Unset
           THEN /\ acc' = acc
                /\ last' = Call(op, m, speed, "AttributeError", "AttributeError")
           ELSE IF Unscaled(m, cur) = desired
           THEN /\ acc' = acc
                /\ last' = Call(op, m, speed, "no_change", "None")
           ELSE /\ acc' = [acc EXCEPT ![m] =
                      [pc |-> "loop", op |-> op, speed |-> AccelSpeed(op, speed),
                       ramp |-> Ramp(Unscaled(m, cur), desired, SlewRatio(op)),
                       dpl |-> 0]]
                /\ last' = Call(op, m, speed, "ramping", "running")
    /\ calls' = calls + 1
    /\ UNCHANGED <<driverVars, cfgVars, max_power_ratio, powerVars, encVars, pidVars, run>>

\* accelerate called by the motor's control thread
Accelerate(m, op, speed, fails) ==
    /\ Free(m)
    /\ AccelerateBody(m, op, speed, fails)

\* halt() or brake() called from another thread than the one that may be
\* inside step_to on the same motor
OverrideCall(m, op, fails) ==
    /\ acc[m].pc = "idle"
    /\ AccelerateBody(m, op, 0, fails)
    /\ UNCHANGED ledger

\* halt(), brake(), ahead(speed), astern(speed)
AccelerateCall(m, op, speed, fails) ==
    /\ Accelerate(m, op, speed, fails)
    /\ UNCHANGED ledger

\* the direction the name of a step operation promises
StepDirection(op) == IF op = "stepAhead" THEN "FORWARD" ELSE "REVERSE"

\* stepAhead(speed, steps), stepAstern(speed, steps); the ledger keeps the
\* step count at the call and the steps asked for
StepCall(m, op, speed, n, fails) ==
    /\ Accelerate(m, op, speed, fails)
    /\ ledger' = [ledger EXCEPT ![m] =
           [origin |-> steps[m], n |-> n, dir |-> StepDirection(op), toward |-> 0,
            away |-> 0, count |-> ledger[m].count, pulses |-> ledger[m].pulses,
            windows |-> ledger[m].windows]]

\* one iteration of the loop of accelerate: set_motor_power, then the test
\* of the interrupt flag
AccelerateStep(m, fails) ==
    /\ acc[m].pc = "loop"
    /\ \E level \in {MulDiv(Head(acc[m].ramp), max_power_ratio[m], 1000)} :
       \E cur \in {GetCurrentPowerLevel(m, fails)} :
       \E res \in {PowerOutcome(m, level, cur)} :
           /\ ApplyPower(m, level, res)
           /\ acc' = [acc EXCEPT ![m].dpl = level,
                                 ![m].ramp = Tail(acc[m].ramp),
                                 ![m].pc = IF interrupt[m] \/ Tail(acc[m].ramp) = <<>>
                                           THEN "end" ELSE "loop"]
           /\ last' = Call("accelerate_step", m, level, res, "running")
    /\ UNCHANGED <<TB, cfgVars, max_power_ratio, interrupt, encVars, pidVars, runVars, calls>>

\* accelerate after its loop ("be sure we're powered off"), and its return;
\* abs(driving_power_level) > 0.00001 is, in thousandths, dpl # 0
AccelerateEnd(m) ==
    /\ acc[m].pc = "end"
    /\ tb' = IF acc[m].speed = 0 /\ acc[m].dpl # 0
             THEN [tb EXCEPT ![Channel(m)] = 0] ELSE tb
    /\ acc' = [acc EXCEPT ![m] = AccIdle]
    /\ last' = Call(acc[m].op, m, acc[m].speed, "returned", "None")
    /\ UNCHANGED <<TB, cfgVars, max_power_ratio, powerVars, interrupt, encVars, pidVars,
                   runVars, calls>>

\* ----------------------------------------------------- callback_step_count
\* the change of the step count with the reverse-encoder flag left out
StepDeltaUnreversed(m, pulse) == IF orientation[m] = "PORT" THEN pulse ELSE -pulse

\* the change of the step count by one pulse: the sign table of the callback
StepDelta(m, pulse) ==
    IF ~reverse_encoder_orientation
    THEN (IF orientation[m] = "PORT" THEN pulse ELSE -pulse)
    ELSE (IF orientation[m] = "PORT" THEN -pulse ELSE pulse)

\* a velocity measurement, (steps - steps_begin) / duration / fudge factor:
\* duration and fudge factor are positive, so it has the sign of the steps
\* made; speed is its magnitude
Measured(made, speed) == IF made > 0 THEN speed ELSE IF made < 0 THEN -speed ELSE 0

\* the ledger after a pulse that changes the step count by delta: toward
\* counts the pulses in the direction of the step goal since it was set, away
\* the others, count all pulses
Delivered(m, delta) ==
    IF (ledger[m].dir = "FORWARD") = (delta > 0)
    THEN [ledger[m] EXCEPT !.toward = @ + 1, !.count = @ + 1]
    ELSE [ledger[m] EXCEPT !.away = @ + 1, !.count = @ + 1]

\* the encoder's decoder calls callback_step_count(pulse); the ledger counts
\* the pulses (count), adds them up (pulses) and counts the callbacks at
\* which the step count was a multiple of the sample rate (windows)
CallbackWithin(m, pulse, speed, budget) ==
    /\ decoder[m]
    /\ ledger[m].count < budget
    /\ \E n \in {steps[m] + StepDelta(m, pulse)} :
           /\ ledger' = [ledger EXCEPT ![m] =
                  [Delivered(m, StepDelta(m, pulse)) EXCEPT
                      !.pulses = @ + pulse,
                      !.windows = @ + (IF n % SampleRate = 0 THEN 1 ELSE 0)]]
           /\ steps' = [steps EXCEPT ![m] = n]
           /\ IF n % SampleRate = 0
              THEN /\ steps_begin' = [steps_begin EXCEPT ![m] = n]
                   /\ IF steps_begin[m] # 0
                      THEN /\ velocity' = [velocity EXCEPT
                                  ![m] = Measured(n - steps_begin[m], speed)]
                           /\ max_velocity' = [max_velocity EXCEPT
                                  ![m] = Max(Measured(n - steps_begin[m], speed),
                                             max_velocity[m])]
                      ELSE UNCHANGED <<velocity, max_velocity>>
              ELSE UNCHANGED <<steps_begin, velocity, max_velocity>>
    /\ last' = Call("callback_step_count", m, pulse, "returned", "None")
    /\ UNCHANGED <<driverVars, cfgVars, max_power_ratio, powerVars, interrupt, acc,
                   pidVars, run, calls>>

\* the callback within the pulses of one behaviour
CallbackStepCount(m, pulse, speed) == CallbackWithin(m, pulse, speed, MaxPulses)

\* reset_steps()
ResetSteps(m) ==
    /\ calls < MaxCalls
    /\ steps' = [steps EXCEPT ![m] = 0]
    /\ last' = Call("reset_steps", m, 0, "returned", "None")
    /\ calls' = calls + 1
    /\ UNCHANGED <<driverVars, cfgVars, max_power_ratio, powerVars, interrupt,
                   steps_begin, velocity, max_velocity, acc, pidVars, runVars>>

\* --------------------------------------------------------------------- PID
\* the motor's getters the PID reads through
GetSteps(m) == steps[m]

GetVelocity(m) == velocity[m]

\* numpy.isclose(value, 0.0, rtol=0.02, atol=0.0):
\* abs(value - 0.0) <= atol + rtol * abs(0.0), in hundredths
EqualsZero(value) == Abs(value - 0) * 100 <= 0 * 100 + 2 * Abs(0)

\* the output passed on without the clamp
Unclipped(n) == n

\* self._clip
Clip(n) == IF n <= -ClipLimit THEN -ClipLimit ELSE IF n >= ClipLimit THEN ClipLimit ELSE n

\* is_stepping with the limit itself still counted as on the way
IsSteppingInclusive(m, direction) ==
    IF direction = "FORWARD" THEN GetSteps(m) <= step_limit[m]
    ELSE GetSteps(m) >= step_limit[m]

\* is_stepping(direction)
IsStepping(m, direction) ==
    IF direction = "FORWARD" THEN GetSteps(m) < step_limit[m]
    ELSE GetSteps(m) > step_limit[m]

\* is_stepping(direction), called by a user of the PID
IsSteppingCall(m, direction) ==
    /\ calls < MaxCalls
    /\ last' = Call("is_stepping", m, 0, direction,
                    IF direction \in Directions THEN Py(IsStepping(m, direction))
                    ELSE "Exception")
    /\ calls' = calls + 1
    /\ UNCHANGED <<driverVars, cfgVars, max_power_ratio, powerVars, interrupt, encVars,
                   acc, pidVars, runVars>>

\* the step limit taken as a distance from zero instead of from the step count
StepLimitFromZero(m, direction, n) ==
    IF direction = "FORWARD" THEN n ELSE -n

\* the step limit set_step_limit(direction, n) sets
StepLimit(m, direction, n) ==
    IF direction = "FORWARD" THEN GetSteps(m) + n ELSE GetSteps(m) - n

\* set_step_limit(direction, n)
SetStepLimit(m, direction, n) ==
    /\ calls < MaxCalls
    /\ Free(m)
    /\ IF direction \in Directions
       THEN /\ step_limit' = [step_limit EXCEPT ![m] = StepLimit(m, direction, n)]
            /\ ledger' = [ledger EXCEPT ![m] =
                   [origin |-> steps[m], n |-> n, dir |-> direction, toward |-> 0,
                    away |-> 0, count |-> ledger[m].count, pulses |-> ledger[m].pulses,
                    windows |-> ledger[m].windows]]
            /\ last' = Call("set_step_limit", m, n, direction, "None")
       ELSE /\ last' = Call("set_step_limit", m, n, direction, "Exception")
            /\ UNCHANGED <<step_limit, ledger>>
    /\ calls' = calls + 1
    /\ UNCHANGED <<driverVars, cfgVars, max_power_ratio, powerVars, interrupt, encVars,
                   acc, last_error, sum_errors, run>>

\* _error = target_velocity - _current_velocity
PidError(m, target) == target - GetVelocity(m)

\* the output with the derivative term taken from this tick's error
PidOutputThisTick(m, error) ==
    (IF enable_p THEN Kp * error ELSE 0)
    + (IF enable_i THEN Ki * sum_errors[m] ELSE 0)
    + (IF enable_d THEN Kd * error ELSE 0)

\* _output = _p_diff + _i_diff + _d_diff
PidOutput(m, error) ==
    (IF enable_p THEN Kp * error ELSE 0)
    + (IF enable_i THEN Ki * sum_errors[m] ELSE 0)
    + (IF enable_d THEN Kd * last_error[m] ELSE 0)

\* the power level _compute(target) passes to set_motor_power when its read
\* of the driver gives cur
ComputeLevel(m, target, cur) ==
    IF EqualsZero(PidError(m, target)) THEN 0
    ELSE Unscaled(m, cur) + Clip(PidOutput(m, PidError(m, target)))

\* set_motor_power called in both branches of _compute
ComputeCommandsAlways(m, target) == TRUE

\* _compute(target) calls set_motor_power
ComputeCommands(m, target) == ~EqualsZero(PidError(m, target)) \/ target = 0

\* _changed, the value _compute(target) returns
ComputeChanged(m, target) == ~EqualsZero(PidError(m, target))

\* self._last_error and self._sum_errors after _compute(target)
ComputeLastError(m, target) ==
    IF EqualsZero(PidError(m, target)) THEN 0 ELSE PidError(m, target)

\* the sum of errors left as it was
ComputeSumErrorsHeld(m, target) == sum_errors[m]

ComputeSumErrors(m, target) ==
    IF EqualsZero(PidError(m, target)) THEN sum_errors[m]
    ELSE sum_errors[m] + PidError(m, target)

\* _compute(target) on a motor whose power ratio is set; fails1 is for its
\* own read of the driver, fails2 for the read of set_motor_power.  op names
\* the step in the record of the last call.
Compute(m, target, fails1, fails2, op) ==
    \E cur \in {GetCurrentPowerLevel(m, fails1)} :
    \E level \in {ComputeLevel(m, target, cur)} :
    \E res \in {IF ComputeCommands(m, target)
                THEN PowerOutcome(m, level, GetCurrentPowerLevel(m, fails2))
                ELSE "no_command"} :
        /\ ApplyPower(m, level, res)
        /\ last_error' = [last_error EXCEPT ![m] = ComputeLastError(m, target)]
        /\ sum_errors' = [sum_errors EXCEPT ![m] = ComputeSumErrors(m, target)]
        /\ last' = Call(op, m, level, res, Py(ComputeChanged(m, target)))

\* one _compute(target) tick on its own
ComputeCall(m, target, fails1, fails2) ==
    /\ calls < MaxCalls
    /\ Free(m)
    /\ IF max_power_ratio[m] = Unset
       THEN /\ last' = Call("_compute", m, target, "AttributeError", "AttributeError")
            /\ UNCHANGED <<tb, powerVars, last_error, sum_errors>>
       ELSE Compute(m, target, fails1, fails2, "_compute")
    /\ calls' = calls + 1
    /\ UNCHANGED <<TB, cfgVars, max_power_ratio, interrupt, encVars, acc, step_limit,
                   runVars>>

\* ----------------------------------------------------------------- step_to
RunIdle == [pc |-> "idle", dir |-> "FORWARD", target |-> 0, ticks |-> 0, late |-> 0,
            passed |-> 0, slew_rate |-> "None", res |-> "none"]

\* _target_velocity of step_to(target_velocity, direction, ...)
RunTarget(direction, value) == IF direction = "FORWARD" THEN value ELSE -value

\* a SlewLimiter nobody has enabled
SlewIdle == [rate |-> "None", started |-> FALSE, baseline |-> "None"]

\* the ratio of a SlewRate, in thousandths
RateRatio(rate) ==
    CASE rate = "SLOWER" -> SlewSlowerRatio
      [] rate = "FAST" -> SlewFastRatio
      [] OTHER -> SlewNormalRatio

\* SlewLimiter.slew(current, target) of an enabled limiter: the target moved
\* toward from current by at most the ratio, in whole units of velocity
Shape(rate, current, target) ==
    IF Abs(target - current) * 1000 <= RateRatio(rate) THEN target
    ELSE IF target > current THEN current + (RateRatio(rate) \div 1000)
    ELSE current - (RateRatio(rate) \div 1000)

\* the target a tick of step_to passes to _compute
TickTarget(m) ==
    IF enable_slew
    THEN (IF slew_enabled[m]
          THEN Shape(slewlimiter[m].rate, GetVelocity(m), run[m].target)
          ELSE run[m].target)
    ELSE run[m].target

\* step_to(target_velocity, direction, slew_rate, f_is_enabled) up to its loop
StepToSlew(m, value, direction, slew_rate) ==
    /\ calls < MaxCalls
    /\ Free(m)
    /\ slew_enabled' = [slew_enabled EXCEPT ![m] = @ \/ enable_slew]
    /\ slewlimiter' = [slewlimiter EXCEPT ![m] =
           IF enable_slew /\ ~slew_enabled[m]
           THEN [rate |-> slew_rate, started |-> TRUE, baseline |-> @.baseline]
           ELSE @]
    /\ IF direction \in Directions
       THEN /\ run' = [run EXCEPT ![m] = [pc |-> "test", dir |-> direction,
                                          target |-> RunTarget(direction, value),
                                          ticks |-> 0, late |-> 0, passed |-> 0,
                                          slew_rate |-> slew_rate,
                                          res |-> "running"]]
            /\ last' = Call("step_to_call", m, value, direction, "running")
       ELSE /\ last' = Call("step_to_call", m, value, direction, "Exception")
            /\ UNCHANGED run
    /\ calls' = calls + 1
    /\ UNCHANGED <<driverVars, reverse_motor_orientation, reverse_encoder_orientation,
                   orientation, decoder, enable_slew, enable_p, enable_i, enable_d,
                   rosd, ros, gamepad,
                   max_power_ratio, powerVars,
                   interrupt, encVars, acc, pidVars, ledger>>

\* step_to with SlewRate.NORMAL
StepToCall(m, value, direction) == StepToSlew(m, value, direction, "NORMAL")

\* step_to called with a target that is not a Velocity: the type check
\* raises before anything else
StepToNotVelocity(m, direction) ==
    /\ calls < MaxCalls
    /\ Free(m)
    /\ last' = Call("step_to_call", m, 0, "not_velocity", "Exception")
    /\ calls' = calls + 1
    /\ UNCHANGED <<driverVars, cfgVars, max_power_ratio, powerVars, interrupt, encVars,
                   acc, pidVars, runVars>>

\* the condition of the while loop; enabled is what f_is_enabled() returns
StepToTest(m, enabled) ==
    /\ run[m].pc = "test"
    /\ enabled => run[m].ticks < MaxTicks
    /\ run' = [run EXCEPT ![m].pc = IF enabled /\ IsStepping(m, run[m].dir)
                                    THEN "compute" ELSE "exit",
                          ![m].res = IF ~enabled THEN "disabled"
                                     ELSE IF ~IsStepping(m, run[m].dir) THEN "goal"
                                     ELSE "running"]
    /\ last' = Call("step_to_test", m, 0, "running", Py(enabled))
    /\ UNCHANGED <<driverVars, cfgVars, max_power_ratio, powerVars, interrupt, encVars,
                   acc, pidVars, ledger, calls>>

\* the stall test after _compute: "we will never get there if we aren't moving"
Stalled(m, changed) ==
    ~changed /\ GetVelocity(m) = 0 /\ run[m].target = 0 /\ step_limit[m] > 0

\* the body of the loop up to self._rate.wait(): the _compute tick and the
\* stall test; late counts the ticks made with the interrupt flag set
StepToTick(m, fails1, fails2) ==
    /\ run[m].pc = "compute"
    /\ IF max_power_ratio[m] = Unset
       THEN /\ run' = [run EXCEPT ![m].pc = "idle", ![m].res = "AttributeError"]
            /\ last' = Call("step_to", m, run[m].target, "AttributeError", "AttributeError")
            /\ UNCHANGED <<tb, powerVars, last_error, sum_errors>>
       ELSE /\ Compute(m, TickTarget(m), fails1, fails2, "step_to_tick")
            /\ run' = [run EXCEPT
                   ![m].pc = IF Stalled(m, ComputeChanged(m, TickTarget(m)))
                             THEN "exit" ELSE "wait",
                   ![m].res = IF Stalled(m, ComputeChanged(m, TickTarget(m)))
                              THEN "stalled" ELSE "running",
                   ![m].ticks = @ + 1,
                   ![m].passed = TickTarget(m),
                   ![m].late = IF interrupt[m] THEN @ + 1 ELSE @]
    /\ UNCHANGED <<TB, cfgVars, max_power_ratio, interrupt, encVars, acc, step_limit,
                   ledger, calls>>

\* the loop without its test of the interrupt flag
StepToWaitDeaf(m) ==
    /\ run[m].pc = "wait"
    /\ run' = [run EXCEPT ![m].pc = "test"]
    /\ last' = Call("step_to_wait", m, 0, "running", "running")
    /\ UNCHANGED <<driverVars, cfgVars, max_power_ratio, powerVars, interrupt, encVars,
                   acc, pidVars, ledger, calls>>

\* self._rate.wait() has returned: the test of the interrupt flag
StepToWait(m) ==
    /\ run[m].pc = "wait"
    /\ run' = [run EXCEPT ![m].pc = IF interrupt[m] THEN "exit" ELSE "test",
                          ![m].res = IF interrupt[m] THEN "interrupted" ELSE "running"]
    /\ last' = Call("step_to_wait", m, 0, "running", "running")
    /\ UNCHANGED <<driverVars, cfgVars, max_power_ratio, powerVars, interrupt, encVars,
                   acc, pidVars, ledger, calls>>

\* step_to after its loop: reset_interrupt(), and the return
\* step_to that stops the motor before it returns
StepToExitStopped(m) ==
    /\ run[m].pc = "exit"
    /\ interrupt' = [interrupt EXCEPT ![m] = FALSE]
    /\ run' = [run EXCEPT ![m].pc = "idle"]
    /\ tb' = [tb EXCEPT ![Channel(m)] = 0]
    /\ slewlimiter' = [slewlimiter EXCEPT ![m].baseline =
                           IF enable_slew THEN "0.0" ELSE @]
    /\ last' = Call("step_to", m, run[m].target, run[m].res, "None")
    /\ UNCHANGED <<TB, reverse_motor_orientation, reverse_encoder_orientation,
                   orientation, decoder, enable_slew, enable_p, enable_i, enable_d,
                   rosd, ros, gamepad,
                   slew_enabled, max_power_ratio, powerVars, encVars, acc,
                   pidVars, ledger, calls>>

StepToExit(m) ==
    /\ run[m].pc = "exit"
    /\ interrupt' = [interrupt EXCEPT ![m] = FALSE]
    /\ run' = [run EXCEPT ![m].pc = "idle"]
    /\ slewlimiter' = [slewlimiter EXCEPT ![m].baseline =
                           IF enable_slew THEN "0.0" ELSE @]
    /\ last' = Call("step_to", m, run[m].target, run[m].res, "None")
    /\ UNCHANGED <<driverVars, reverse_motor_orientation, reverse_encoder_orientation,
                   orientation, decoder, enable_slew, enable_p, enable_i, enable_d,
                   rosd, ros, gamepad,
                   slew_enabled, max_power_ratio, powerVars, encVars, acc,
                   pidVars, ledger, calls>>

\* ------------------------------------------------------------------- rosd
\* the variables of the motors and the PIDs
baseVars == <<tb, TB, reverse_motor_orientation, reverse_encoder_orientation,
              orientation, decoder, enable_slew, enable_p, enable_i, enable_d,
              slew_enabled, slewlimiter, max_power_ratio, max_power,
              max_driving_power, interrupt, steps, steps_begin, velocity,
              max_velocity, acc, last_error, sum_errors, step_limit, run, ledger,
              calls, last>>

\* RosDaemon after __init__: the LED low, _old_state False, no ROS.  prev is
\* the switch as the last read_state saw it; ups and downs count its changes
\* and enables, disables and created the calls of enable(), disable() and ROS()
RosdInit == [pc |-> "loop", application |-> "ros", old_state |-> FALSE,
             led |-> FALSE, ros |-> "None", gamepad |-> "None", suppressed |-> FALSE, prev |-> FALSE, reads |-> 0, ups |-> 0,
             downs |-> 0, enables |-> 0, disables |-> 0, created |-> 0]

\* read_state calls enable() or disable() on every reading
ChangedAlways(state, old_state) == TRUE

\* if self._state is not self._old_state
Changed(state, old_state) == state # old_state

\* _enable_ros() that returns: the ROS is created and started if there is
\* none, else its arbitrator is un-suppressed; the LED is set
EnableRos(d) ==
    IF d.ros = "None"
    THEN [d EXCEPT !.ros = "ROS", !.created = @ + 1, !.led = TRUE]
    ELSE [d EXCEPT !.suppressed = FALSE, !.led = TRUE]

\* _disable_ros(): the arbitrator of the ROS, if any, is suppressed; the LED
\* is cleared
DisableRos(d) ==
    IF d.ros = "None"
    THEN [d EXCEPT !.led = FALSE]
    ELSE [d EXCEPT !.suppressed = TRUE, !.led = FALSE]

\* _enable_gamepad() that returns: the GamepadDemo is created if there is
\* none and enabled; the LED is set
EnableGamepad(d) == [d EXCEPT !.gamepad = "GamepadDemo", !.led = TRUE]

\* _disable_gamepad(): the LED is cleared
DisableGamepad(d) == [d EXCEPT !.led = FALSE]

\* the values of rosd:application
Applications == {"ros", "gamepad", "other"}

\* enable() raises: the application is not recognised, or the ROS or the
\* GamepadDemo it has to create does not start
EnableRaises(d, starts) ==
    \/ d.application = "other"
    \/ d.application = "ros" /\ d.ros = "None" /\ ~starts
    \/ d.application = "gamepad" /\ d.gamepad = "None" /\ ~starts

\* one pass of the loop of main(): read_state() with the switch on or off;
\* starts tells whether ROS() and start() succeed when they are called.  An
\* exception leaves the loop, and close() in the finally clause clears the LED.
ReadState(state, starts) ==
    /\ rosd.pc = "loop"
    /\ rosd.reads < MaxReads
    /\ \E d \in {[rosd EXCEPT !.reads = @ + 1, !.prev = state,
                              !.ups = IF state /\ ~rosd.prev THEN @ + 1 ELSE @,
                              !.downs = IF ~state /\ rosd.prev THEN @ + 1 ELSE @]} :
           rosd' = IF ~Changed(state, rosd.old_state)
                   THEN [d EXCEPT !.old_state = state]
                   ELSE IF ~state
                   THEN [(IF d.application = "ros" THEN DisableRos(d) ELSE DisableGamepad(d))
                            EXCEPT !.disables = @ + 1, !.old_state = state]
                   ELSE IF EnableRaises(d, starts)
                   THEN [d EXCEPT !.enables = @ + 1, !.pc = "closed", !.led = FALSE]
                   ELSE [(IF d.application = "ros" THEN EnableRos(d) ELSE EnableGamepad(d))
                            EXCEPT !.enables = @ + 1, !.old_state = state]
    /\ UNCHANGED <<baseVars, ros, gamepad>>

\* -------------------------------------------------------------------- ros
\* the callers of ROS.close(): the signal handler, the arbitrator's callback
\* and the end of the loop of run()
Closers == {"signal", "arbitrator", "loop"}

\* ROS after __init__; shutdowns counts the runs of the shutdown sequence
\* and late the steps a later call has changed
RosInit == [closing |-> FALSE, active |-> FALSE, shutdowns |-> 0,
            pc |-> [t \in Closers |-> "idle"], n |-> [t \in Closers |-> 0]]

\* close() up to its test of self._closing: it returns at once when the
\* flag is set
CloseTest(t) ==
    /\ ros.pc[t] = "idle"
    /\ ros.n[t] < MaxCloses
    /\ ros' = [ros EXCEPT !.pc[t] = IF ros.closing THEN "idle" ELSE "entered",
                          !.n[t] = @ + 1]
    /\ UNCHANGED <<baseVars, rosd, gamepad>>

\* self._active = False; self._closing = True
CloseMark(t) ==
    /\ ros.pc[t] = "entered"
    /\ ros' = [ros EXCEPT !.pc[t] = "marked", !.active = FALSE, !.closing = TRUE]
    /\ UNCHANGED <<baseVars, rosd, gamepad>>

\* the shutdown sequence: the web wrapper, the arbitrator, the features, the
\* motors and the switch are closed, then sys.exit(0) ends the caller
CloseSequence(t) ==
    /\ ros.pc[t] = "marked"
    /\ ros' = [ros EXCEPT !.pc[t] = "exited", !.shutdowns = @ + 1]
    /\ UNCHANGED <<baseVars, rosd, gamepad>>

\* ---------------------------------------------------------------- gamepad
\* Gamepad after __init__ with a connected device; started counts the
\* event-loop threads started and n the calls made
GamepadInit == [closing |-> FALSE, closed |-> FALSE, enabled |-> FALSE,
                thread |-> "None", started |-> 0, n |-> 0, op |-> "Gamepad",
                looping |-> FALSE]

\* in_loop(): the thread exists and is alive
InLoop(g) == g.thread = "alive"

\* _start_gamepad_loop() on a connected gamepad
StartGamepadLoop(g) ==
    IF g.enabled /\ ~g.closed /\ g.thread = "None"
    THEN [g EXCEPT !.thread = "alive", !.started = @ + 1]
    ELSE g

\* enable(); looping records in_loop() as the call found it
GamepadEnable ==
    /\ gamepad.n < MaxGamepadCalls
    /\ \E g \in {[gamepad EXCEPT !.n = @ + 1, !.op = "enable",
                                 !.looping = InLoop(gamepad)]} :
           gamepad' = IF g.closed THEN [g EXCEPT !.enabled = FALSE]
                      ELSE IF ~InLoop(g) THEN StartGamepadLoop([g EXCEPT !.enabled = TRUE])
                      ELSE [g EXCEPT !.enabled = FALSE]
    /\ UNCHANGED <<baseVars, rosd, ros>>

\* disable()
GamepadDisable ==
    /\ gamepad.n < MaxGamepadCalls
    /\ gamepad' = [gamepad EXCEPT !.n = @ + 1, !.op = "disable", !.enabled = FALSE,
                                  !.looping = InLoop(gamepad)]
    /\ UNCHANGED <<baseVars, rosd, ros>>

\* close()
GamepadClose ==
    /\ gamepad.n < MaxGamepadCalls
    /\ \E g \in {[gamepad EXCEPT !.n = @ + 1, !.op = "close", !.enabled = FALSE,
                                 !.looping = InLoop(gamepad)]} :
           gamepad' = IF g.closing \/ g.closed THEN g
                      ELSE [g EXCEPT !.closing = TRUE, !.closed = TRUE]
    /\ UNCHANGED <<baseVars, rosd, ros>>

\* _gamepad_loop finds f_is_enabled() false and returns: the thread ends
GamepadLoopExit ==
    /\ gamepad.thread = "alive"
    /\ ~gamepad.enabled
    /\ gamepad' = [gamepad EXCEPT !.thread = "dead", !.op = "loop_exit"]
    /\ UNCHANGED <<baseVars, rosd, ros>>

\* ---------------------------------------------------------- specifications
\* after Motor(config, tb, pi, Orientation.PORT, level),
\* Motor(config, tb, pi, Orientation.STBD, level) and a PID for each
MotorFields ==
    /\ tb = [c \in {1, 2} |-> 0]
    /\ TB = "tb"
    /\ decoder = [m \in Motors |-> TRUE]
    /\ slew_enabled = [m \in Motors |-> FALSE]
    /\ slewlimiter = [m \in Motors |-> SlewIdle]
    /\ ros = RosInit
    /\ gamepad = GamepadInit
    /\ orientation = [m \in Motors |-> InitOrientation(m, reverse_motor_orientation)]
    /\ max_power_ratio = [m \in Motors |-> Unset]
    /\ max_power = [m \in Motors |-> 0]
    /\ max_driving_power = [m \in Motors |-> 0]
    /\ interrupt = [m \in Motors |-> FALSE]
    /\ steps = [m \in Motors |-> 0]
    /\ steps_begin = [m \in Motors |-> 0]
    /\ velocity = [m \in Motors |-> 0]
    /\ max_velocity = [m \in Motors |-> 0]
    /\ acc = [m \in Motors |-> AccIdle]
    /\ last_error = [m \in Motors |-> 0]
    /\ sum_errors = [m \in Motors |-> 0]
    /\ step_limit = [m \in Motors |-> 0]
    /\ run = [m \in Motors |-> RunIdle]
    /\ ledger = [m \in Motors |->
           [origin |-> 0, n |-> 0, dir |-> "FORWARD", toward |-> 0, away |-> 0,
            count |-> 0, pulses |-> 0, windows |-> 0]]
    /\ calls = 0
    /\ last = [op |-> "init", m |-> "PORT", arg |-> 0, res |-> "returned",
               ret |-> "None", pre |-> 0, cur |-> 0, reads |-> 0, prev |-> "none",
               prevm |-> "PORT", prevpre |-> 0]

\* the motors, the PIDs and a RosDaemon of application 'ros'
Fields ==
    /\ MotorFields
    /\ rosd = RosdInit

\* the motors and PIDs constructed from a configuration with enable_slew
\* false
\* the PID section with its three terms enabled
AllTerms ==
    /\ enable_p = TRUE
    /\ enable_i = TRUE
    /\ enable_d = TRUE

Constructed ==
    /\ enable_slew = FALSE
    /\ AllTerms
    /\ Fields

\* Spec: the whole power interface of one motor (the one constructed as
\* PORT), under both values of reverse_motor_orientation
Init ==
    /\ reverse_motor_orientation \in BOOLEAN
    /\ reverse_encoder_orientation = FALSE
    /\ Constructed

Driven == {"PORT"}

Next ==
    \/ \E m \in Driven, r \in RatioChoices : SetMaxPowerRatio(m, r)
    \/ \E m \in Driven, l \in LevelChoices, f \in FailChoices : SetMotorPower(m, l, f)
    \/ \E m \in Driven : Stop(m)
    \/ \E m \in Driven : Interrupt(m)
    \/ \E m \in Driven : ResetInterrupt(m)
    \/ \E m \in Driven : Cancel(m)
    \/ \E m \in Driven, op \in {"halt", "brake"}, f \in FailChoices :
           AccelerateCall(m, op, 0, f)
    \/ \E m \in Driven, op \in {"ahead", "astern"}, s \in SpeedChoices, f \in FailChoices :
           AccelerateCall(m, op, s, f)
    \/ \E m \in Driven, f \in FailChoices : AccelerateStep(m, f)
    \/ \E m \in Driven : AccelerateEnd(m)
    \/ \E m \in Driven, t \in TargetChoices, f1 \in FailChoices, f2 \in FailChoices :
           ComputeCall(m, t, f1, f2)

Spec == Init /\ [][Next]_vars

\* SpecPair: the two motors on the shared driver, through the operations
\* that return at once, on a driver that answers every read, with the pulses
\* (+1) of the PORT encoder
NextPair ==
    \/ \E m \in Motors, r \in RatioChoices : SetMaxPowerRatio(m, r)
    \/ \E m \in Motors, l \in LevelChoices, f \in Answering : SetMotorPower(m, l, f)
    \/ \E m \in Motors : Stop(m)
    \/ \E m \in Motors : Cancel(m)
    \/ \E m \in Motors : Interrupt(m)
    \/ \E m \in Driven, v \in SpeedMeasured : CallbackStepCount(m, 1, v)

SpecPair == Init /\ [][NextPair]_vars

\* SpecPid: the step_to runs of one PID, with the encoder and interrupt(),
\* under both values of reverse_encoder_orientation
InitPid ==
    /\ reverse_motor_orientation = FALSE
    /\ reverse_encoder_orientation \in BOOLEAN
    /\ Constructed

NextPid ==
    \/ \E m \in Driven, r \in RatioChoices : SetMaxPowerRatio(m, r)
    \/ \E m \in Driven, d \in Directions, n \in StepChoices : SetStepLimit(m, d, n)
    \/ \E m \in Driven, t \in TargetChoices, d \in Directions : StepToCall(m, t, d)
    \/ \E m \in Driven, e \in BOOLEAN : StepToTest(m, e)
    \/ \E m \in Driven, f1 \in Answering, f2 \in Answering : StepToTick(m, f1, f2)
    \/ \E m \in Driven : StepToWait(m)
    \/ \E m \in Driven : StepToExit(m)
    \/ \E m \in Driven : Interrupt(m)
    \/ \E m \in Driven, p \in PulseChoices, v \in SpeedMeasured : CallbackStepCount(m, p, v)

SpecPid == InitPid /\ [][NextPid]_vars

\* SpecPidPair: the PORT and the STBD PID, each after set_max_power_ratio(1.0)
\* and set_step_limit(FORWARD, 2), in step_to runs forward at SLOW, with
\* interrupt() and the pulses (+1) of their encoders
GoalSet(m) ==
    /\ max_power_ratio[m] = 1000
    /\ step_limit[m] = StepLimit(m, "FORWARD", 2)
    /\ ledger[m] = [origin |-> steps[m], n |-> 2, dir |-> "FORWARD", toward |-> 0,
                    away |-> 0, count |-> 0, pulses |-> 0, windows |-> 0]

InitPidPair ==
    /\ reverse_motor_orientation = FALSE
    /\ enable_slew = FALSE
    /\ AllTerms
    /\ reverse_encoder_orientation = FALSE
    /\ tb = [c \in {1, 2} |-> 0]
    /\ TB = "tb"
    /\ decoder = [m \in Motors |-> TRUE]
    /\ slew_enabled = [m \in Motors |-> FALSE]
    /\ slewlimiter = [m \in Motors |-> SlewIdle]
    /\ rosd = RosdInit
    /\ ros = RosInit
    /\ gamepad = GamepadInit
    /\ orientation = [m \in Motors |-> InitOrientation(m, reverse_motor_orientation)]
    /\ max_power = [m \in Motors |-> 0]
    /\ max_driving_power = [m \in Motors |-> 0]
    /\ interrupt = [m \in Motors |-> FALSE]
    /\ steps = [m \in Motors |-> 0]
    /\ steps_begin = [m \in Motors |-> 0]
    /\ velocity = [m \in Motors |-> 0]
    /\ max_velocity = [m \in Motors |-> 0]
    /\ acc = [m \in Motors |-> AccIdle]
    /\ last_error = [m \in Motors |-> 0]
    /\ sum_errors = [m \in Motors |-> 0]
    /\ run = [m \in Motors |-> RunIdle]
    /\ max_power_ratio \in [Motors -> {1000}]
    /\ step_limit \in [Motors -> {2}]
    /\ ledger \in [Motors -> {[origin |-> 0, n |-> 2, dir |-> "FORWARD", toward |-> 0,
                                away |-> 0, count |-> 0, pulses |-> 0, windows |-> 0]}]
    /\ \A m \in Motors : GoalSet(m)
    /\ calls = 0
    /\ last = [op |-> "init", m |-> "PORT", arg |-> 0, res |-> "returned",
               ret |-> "None", pre |-> 0, cur |-> 0, reads |-> 0, prev |-> "none",
               prevm |-> "PORT", prevpre |-> 0]

NextPidPair ==
    \/ \E m \in Motors : StepToCall(m, VelocitySlow, "FORWARD")
    \/ \E m \in Motors, e \in BOOLEAN : StepToTest(m, e)
    \/ \E m \in Motors, f1 \in Answering, f2 \in Answering : StepToTick(m, f1, f2)
    \/ \E m \in Motors : StepToWait(m)
    \/ \E m \in Motors : StepToExit(m)
    \/ \E m \in Motors : Interrupt(m)
    \/ \E m \in Motors, v \in SpeedMeasured : CallbackStepCount(m, 1, v)

SpecPidPair == InitPidPair /\ [][NextPidPair]_vars

\* SpecRead: one motor, set and stopped on a driver that answers, and read
\* by get_current_power_level on a driver that answers late or not at all
NextRead ==
    \/ \E m \in Driven, r \in RatioChoices : SetMaxPowerRatio(m, r)
    \/ \E m \in Driven, l \in LevelChoices, f \in Answering : SetMotorPower(m, l, f)
    \/ \E m \in Driven : Stop(m)
    \/ \E m \in Driven, f \in ReadChoices : GetCurrentPowerLevelCall(m, f)

SpecRead == Init /\ [][NextRead]_vars

\* SpecStep: one motor on a driver that answers, through stepAhead,
\* stepAstern and astern, with interrupt() and the pulses of its encoder
NextStep ==
    \/ \E m \in Driven, r \in RatioChoices : SetMaxPowerRatio(m, r)
    \/ \E m \in Driven, op \in {"stepAhead", "stepAstern"}, s \in SpeedChoices,
          n \in StepChoices, f \in Answering : StepCall(m, op, s, n, f)
    \/ \E m \in Driven, s \in SpeedChoices, f \in Answering :
           AccelerateCall(m, "astern", s, f)
    \/ \E m \in Driven, f \in Answering : AccelerateStep(m, f)
    \/ \E m \in Driven : AccelerateEnd(m)
    \/ \E m \in Driven : Interrupt(m)
    \/ \E m \in Driven, p \in PulseChoices, v \in SpeedMeasured : CallbackStepCount(m, p, v)

SpecStep == Init /\ [][NextStep]_vars

\* ---------------------------------------------------------------- Velocity
\* the named setpoints of Velocity and their values in tenths (66.7 = 667);
\* MAXIMUM, 100.000001, is the first value above 100.0
Velocities == {"STOP", "DEAD_SLOW", "SLOW", "HALF", "TWO_THIRDS", "THREE_QUARTER",
               "FULL", "EMERGENCY", "MAXIMUM"}

VelocityValue(v) ==
    CASE v = "STOP" -> 0
      [] v = "DEAD_SLOW" -> 200
      [] v = "SLOW" -> 300
      [] v = "HALF" -> 500
      [] v = "TWO_THIRDS" -> 667
      [] v = "THREE_QUARTER" -> 750
      [] v = "FULL" -> 900
      [] v = "EMERGENCY" -> 1000
      [] v = "MAXIMUM" -> 1001

\* Velocity.get_slower_than(velocity), the argument x in tenths
GetSlowerThan(x) ==
    IF x < VelocityValue("DEAD_SLOW") THEN "STOP"
    ELSE IF x < VelocityValue("SLOW") THEN "DEAD_SLOW"
    ELSE IF x < VelocityValue("HALF") THEN "SLOW"
    ELSE IF x < VelocityValue("TWO_THIRDS") THEN "HALF"
    ELSE IF x < VelocityValue("THREE_QUARTER") THEN "TWO_THIRDS"
    ELSE IF x < VelocityValue("FULL") THEN "THREE_QUARTER"
    ELSE "FULL"

\* the values get_slower_than is called with: 0.0 to 100.0 in tenths
SlowerInputs == 0 .. VelocityValue("EMERGENCY")

\* a call of Velocity.get_slower_than(velocity); res of its record is the
\* setpoint returned
GetSlowerThanCall(x) ==
    /\ last' = Call("get_slower_than", "PORT", x, GetSlowerThan(x),
                    "Velocity")
    /\ UNCHANGED <<driverVars, cfgVars, max_power_ratio, powerVars, interrupt, encVars,
                   acc, pidVars, runVars, calls>>

\* SpecVelocity: the calls of Velocity.get_slower_than
NextVelocity == \E x \in SlowerInputs : GetSlowerThanCall(x)

SpecVelocity == Init /\ [][NextVelocity]_vars

\* ------------------------------------------------------------ construction
\* the arguments Motor() is called with: the configuration, the driver
\* handle and the pi handle, each given or None
ConfigChoices == {"None", "config"}
HandleChoices == {"None", "tb"}
PiChoices == {"None", "pi"}

\* where Motor.__init__ ends: at one of its three argument checks, in their
\* order, or at its end
InitOutcome(config, handle, pi) ==
    IF config = "None" THEN "null_config"
    ELSE IF handle = "None" THEN "null_tb"
    ELSE IF pi = "None" THEN "null_pi"
    ELSE "ready"

\* the module-level TB after Motor.__init__: assigned between the check of
\* tb and the check of pi
InitTB(config, handle, pi) ==
    IF InitOutcome(config, handle, pi) \in {"null_pi", "ready"} THEN handle ELSE TB

\* Motor(config, tb, pi, orientation, level): the fields of the new object
\* and the Decoder callback of configure_encoder when every argument is
\* given, ValueError otherwise
MotorInit(m, config, handle, pi) ==
    /\ calls < MaxCalls
    /\ calls' = calls + 1
    /\ TB' = InitTB(config, handle, pi)
    /\ IF InitOutcome(config, handle, pi) = "ready"
       THEN /\ orientation' = [orientation EXCEPT
                   ![m] = InitOrientation(m, reverse_motor_orientation)]
            /\ decoder' = [decoder EXCEPT ![m] = TRUE]
            /\ max_power_ratio' = [max_power_ratio EXCEPT ![m] = Unset]
            /\ max_power' = [max_power EXCEPT ![m] = 0]
            /\ max_driving_power' = [max_driving_power EXCEPT ![m] = 0]
            /\ interrupt' = [interrupt EXCEPT ![m] = FALSE]
            /\ steps' = [steps EXCEPT ![m] = 0]
            /\ steps_begin' = [steps_begin EXCEPT ![m] = 0]
            /\ velocity' = [velocity EXCEPT ![m] = 0]
            /\ max_velocity' = [max_velocity EXCEPT ![m] = 0]
            /\ last' = Call("Motor", m, 0, "ready", "Motor")
       ELSE /\ last' = Call("Motor", m, 0, InitOutcome(config, handle, pi), "ValueError")
            /\ UNCHANGED <<orientation, decoder, max_power_ratio, powerVars, interrupt,
                           encVars>>
    /\ UNCHANGED <<tb, reverse_motor_orientation, reverse_encoder_orientation,
                   enable_slew, enable_p, enable_i, enable_d,
                   rosd, ros, gamepad, slew_enabled,
                   slewlimiter, acc,
                   pidVars, runVars>>

\* the values PID.equals_zero is called with, in thousandths: -0.050 to
\* 0.050, and 5.0
ZeroInputs == (-50 .. 50) \cup {-5000, 5000}

\* a call of PID.equals_zero(value), value in thousandths: the test of
\* numpy.isclose against 0.0 is the same in every unit
EqualsZeroCall(x) ==
    /\ last' = Call("equals_zero", "PORT", x, "returned", Py(EqualsZero(x)))
    /\ UNCHANGED <<driverVars, cfgVars, max_power_ratio, powerVars, interrupt, encVars,
                   acc, pidVars, runVars, calls>>

\* SpecZero: the calls of PID.equals_zero
NextZero == \E x \in ZeroInputs : EqualsZeroCall(x)

SpecZero == Init /\ [][NextZero]_vars

\* SpecBuild: the construction of the two motors from a module in which
\* no Motor has been constructed yet, the arguments given or None, and the
\* use of the motors that are constructed
InitBuild ==
    /\ reverse_motor_orientation \in BOOLEAN
    /\ reverse_encoder_orientation = FALSE
    /\ tb = [c \in {1, 2} |-> 0]
    /\ TB = "unbound"
    /\ decoder = [m \in Motors |-> FALSE]
    /\ enable_slew = FALSE
    /\ AllTerms
    /\ slew_enabled = [m \in Motors |-> FALSE]
    /\ slewlimiter = [m \in Motors |-> SlewIdle]
    /\ rosd = RosdInit
    /\ ros = RosInit
    /\ gamepad = GamepadInit
    /\ orientation = [m \in Motors |-> InitOrientation(m, reverse_motor_orientation)]
    /\ max_power_ratio = [m \in Motors |-> Unset]
    /\ max_power = [m \in Motors |-> 0]
    /\ max_driving_power = [m \in Motors |-> 0]
    /\ interrupt = [m \in Motors |-> FALSE]
    /\ steps = [m \in Motors |-> 0]
    /\ steps_begin = [m \in Motors |-> 0]
    /\ velocity = [m \in Motors |-> 0]
    /\ max_velocity = [m \in Motors |-> 0]
    /\ acc = [m \in Motors |-> AccIdle]
    /\ last_error = [m \in Motors |-> 0]
    /\ sum_errors = [m \in Motors |-> 0]
    /\ step_limit = [m \in Motors |-> 0]
    /\ run = [m \in Motors |-> RunIdle]
    /\ ledger = [m \in Motors |->
           [origin |-> 0, n |-> 0, dir |-> "FORWARD", toward |-> 0, away |-> 0,
            count |-> 0, pulses |-> 0, windows |-> 0]]
    /\ calls = 0
    /\ last = [op |-> "import", m |-> "PORT", arg |-> 0, res |-> "returned",
               ret |-> "None", pre |-> 0, cur |-> 0, reads |-> 0, prev |-> "none",
               prevm |-> "PORT", prevpre |-> 0]

\* the motors constructed so far
Built == {m \in Motors : decoder[m]}

NextBuild ==
    \/ \E m \in Motors \ Built, c \in ConfigChoices, h \in HandleChoices, p \in PiChoices :
           MotorInit(m, c, h, p)
    \/ \E m \in Built, r \in RatioChoices : SetMaxPowerRatio(m, r)
    \/ \E m \in Built, l \in LevelChoices, f \in Answering : SetMotorPower(m, l, f)
    \/ \E m \in Built, p \in PulseChoices, v \in SpeedMeasured : CallbackStepCount(m, p, v)

SpecBuild == InitBuild /\ [][NextBuild]_vars

\* SpecArgs: the PID's operations called with a direction that is a
\* Direction or not and step_to called with a target that is not a
\* Velocity, slew enabled or not in the configuration, among interrupt()
\* and the pulses of the encoder
InitArgs ==
    /\ reverse_motor_orientation = FALSE
    /\ reverse_encoder_orientation = FALSE
    /\ enable_slew \in BOOLEAN
    /\ AllTerms
    /\ Fields

NextArgs ==
    \/ \E m \in Driven, d \in DirectionArgs, n \in StepChoices : SetStepLimit(m, d, n)
    \/ \E m \in Driven, d \in DirectionArgs : IsSteppingCall(m, d)
    \/ \E m \in Driven, v \in TargetChoices : StepToCall(m, v, "None")
    \/ \E m \in Driven, d \in DirectionArgs : StepToNotVelocity(m, d)
    \/ \E m \in Driven : Interrupt(m)
    \/ \E m \in Driven, p \in PulseChoices, v \in SpeedMeasured : CallbackStepCount(m, p, v)

SpecArgs == InitArgs /\ [][NextArgs]_vars

\* SpecMotion: is_in_motion and is_stopped asked of one motor between power
\* commands of either sign
NextMotion ==
    \/ \E m \in Driven, r \in RatioChoices : SetMaxPowerRatio(m, r)
    \/ \E m \in Driven, l \in LevelChoices, f \in Answering : SetMotorPower(m, l, f)
    \/ \E m \in Driven, f \in FailChoices : IsInMotionCall(m, f)
    \/ \E m \in Driven, f \in FailChoices : IsStoppedCall(m, f)

SpecMotion == Init /\ [][NextMotion]_vars

\* SpecTick: the _compute ticks of one PID whose terms are each enabled or
\* not in the configuration, the velocity changed by the encoder between
\* the ticks
InitTick ==
    /\ reverse_motor_orientation = FALSE
    /\ reverse_encoder_orientation = FALSE
    /\ enable_slew = FALSE
    /\ enable_p \in BOOLEAN
    /\ enable_i \in BOOLEAN
    /\ enable_d \in BOOLEAN
    /\ Fields

NextTick ==
    \/ \E m \in Driven, r \in RatioChoices : SetMaxPowerRatio(m, r)
    \/ \E m \in Driven, t \in TargetChoices, f1 \in Answering, f2 \in Answering :
           ComputeCall(m, t, f1, f2)
    \/ \E m \in Driven, p \in PulseChoices, v \in SpeedMeasured : CallbackStepCount(m, p, v)

SpecTick == InitTick /\ [][NextTick]_vars

InitEncoder ==
    /\ reverse_motor_orientation \in BOOLEAN
    /\ reverse_encoder_orientation \in BOOLEAN
    /\ Constructed

\* SpecEncoder: the pulses of the encoder of one motor among its power
\* commands, stop() and interrupt(), under both values of each orientation
\* flag
NextEncoder ==
    \/ \E m \in Driven, r \in RatioChoices : SetMaxPowerRatio(m, r)
    \/ \E m \in Driven, l \in LevelChoices, f \in Answering : SetMotorPower(m, l, f)
    \/ \E m \in Driven : Stop(m)
    \/ \E m \in Driven : Interrupt(m)
    \/ \E m \in Driven, p \in PulseChoices, v \in SpeedMeasured : CallbackStepCount(m, p, v)

SpecEncoder == InitEncoder /\ [][NextEncoder]_vars

\* SpecReset: the same with reset_steps()
NextReset ==
    \/ NextEncoder
    \/ \E m \in Driven : ResetSteps(m)

SpecReset == InitEncoder /\ [][NextReset]_vars

\* SpecSample: the sampling of the velocity over the pulses of one motor
NextSample ==
    \/ \E m \in Driven, r \in RatioChoices : SetMaxPowerRatio(m, r)
    \/ \E m \in Driven : Interrupt(m)
    \/ \E m \in Driven, p \in PulseChoices, v \in SpeedMeasured :
           CallbackWithin(m, p, v, MaxSamples)

SpecSample == InitEncoder /\ [][NextSample]_vars

\* SpecOverride: halt() and brake() called on a motor from another thread
\* while a step_to run forward at SLOW may be active on it, with interrupt()
NextOverride ==
    \/ \E m \in Driven, r \in RatioChoices : SetMaxPowerRatio(m, r)
    \/ \E m \in Driven, n \in StepChoices : SetStepLimit(m, "FORWARD", n)
    \/ \E m \in Driven : StepToCall(m, VelocitySlow, "FORWARD")
    \/ \E m \in Driven, e \in BOOLEAN : StepToTest(m, e)
    \/ \E m \in Driven, f1 \in Answering, f2 \in Answering : StepToTick(m, f1, f2)
    \/ \E m \in Driven : StepToWait(m)
    \/ \E m \in Driven : StepToExit(m)
    \/ \E m \in Driven : Interrupt(m)
    \/ \E m \in Driven, op \in {"halt", "brake"}, f \in Answering : OverrideCall(m, op, f)
    \/ \E m \in Driven, f \in Answering : AccelerateStep(m, f)
    \/ \E m \in Driven : AccelerateEnd(m)

SpecOverride == Init /\ [][NextOverride]_vars

\* SpecSlew: step_to runs of one PID with each SlewRate, slew enabled or not
\* in the configuration
SlewRates == {"SLOWER", "NORMAL", "FAST"}

InitSlew ==
    /\ reverse_motor_orientation = FALSE
    /\ reverse_encoder_orientation = FALSE
    /\ enable_slew \in BOOLEAN
    /\ AllTerms
    /\ Fields

NextSlew ==
    \/ \E m \in Driven, r \in RatioChoices : SetMaxPowerRatio(m, r)
    \/ \E m \in Driven, n \in StepChoices : SetStepLimit(m, "FORWARD", n)
    \/ \E m \in Driven, t \in TargetChoices, s \in SlewRates :
           StepToSlew(m, t, "FORWARD", s)
    \/ \E m \in Driven, e \in BOOLEAN : StepToTest(m, e)
    \/ \E m \in Driven, f1 \in Answering, f2 \in Answering : StepToTick(m, f1, f2)
    \/ \E m \in Driven : StepToWait(m)
    \/ \E m \in Driven : StepToExit(m)
    \/ \E m \in Driven, p \in PulseChoices, v \in SpeedMeasured : CallbackStepCount(m, p, v)

SpecSlew == InitSlew /\ [][NextSlew]_vars

\* SpecChannel: the power commands and the power read of the two motors on
\* the shared driver, under both values of reverse_motor_orientation
NextChannel ==
    \/ \E m \in Motors, r \in RatioChoices : SetMaxPowerRatio(m, r)
    \/ \E m \in Motors, l \in LevelChoices, f \in Answering : SetMotorPower(m, l, f)
    \/ \E m \in Motors : Stop(m)
    \/ \E m \in Motors, f \in Answering : GetCurrentPowerLevelCall(m, f)
    \/ \E m \in Motors, op \in {"halt", "brake"}, f \in Answering :
           AccelerateCall(m, op, 0, f)
    \/ \E m \in Motors, s \in SpeedChoices, f \in Answering :
           AccelerateCall(m, "ahead", s, f)
    \/ \E m \in Motors, f \in Answering : AccelerateStep(m, f)
    \/ \E m \in Motors : AccelerateEnd(m)

SpecChannel == Init /\ [][NextChannel]_vars

\* SpecDaemon: the loop of rosd's main() over the readings of the switch,
\* under each value of rosd:application
InitDaemon ==
    /\ reverse_motor_orientation = FALSE
    /\ reverse_encoder_orientation = FALSE
    /\ enable_slew = FALSE
    /\ AllTerms
    /\ MotorFields
    /\ rosd \in {[RosdInit EXCEPT !.application = a] : a \in Applications}

NextDaemon == \E state \in BOOLEAN, starts \in BOOLEAN : ReadState(state, starts)

SpecDaemon == InitDaemon /\ [][NextDaemon]_vars

\* SpecClose: ROS.close() called by the signal handler, the arbitrator's
\* callback and the end of run(), each step of a call interleaved with the
\* steps of the others
NextClose ==
    \/ \E t \in Closers : CloseTest(t)
    \/ \E t \in Closers : CloseMark(t)
    \/ \E t \in Closers : CloseSequence(t)

InitClose ==
    /\ reverse_motor_orientation = FALSE
    /\ reverse_encoder_orientation = FALSE
    /\ Constructed

SpecClose == InitClose /\ [][NextClose]_vars

\* SpecGamepad: enable(), disable() and close() of one connected Gamepad and
\* the end of its event loop
NextGamepad ==
    \/ GamepadEnable
    \/ GamepadDisable
    \/ GamepadClose
    \/ GamepadLoopExit

SpecGamepad == InitClose /\ [][NextGamepad]_vars

\* SpecGoal: the step goal of one PID: set_step_limit, is_stepping and the
\* pulses of the motor's encoder, under every setting of the two
\* orientation flags
InitGoal ==
    /\ reverse_motor_orientation \in BOOLEAN
    /\ reverse_encoder_orientation \in BOOLEAN
    /\ Constructed

NextGoal ==
    \/ \E m \in Driven, d \in Directions, n \in StepChoices : SetStepLimit(m, d, n)
    \/ \E m \in Driven, d \in Directions : IsSteppingCall(m, d)
    \/ \E m \in Driven, p \in PulseChoices, v \in SpeedMeasured : CallbackStepCount(m, p, v)

SpecGoal == InitGoal /\ [][NextGoal]_vars

\* ------------------------------------------------------------------ claims
\* the operations that hand a power level to set_motor_power: arg of their
\* record is that level
PowerRequests == {"set_motor_power", "accelerate_step", "_compute"}

\* C1: on motors whose power ratio is at most 1.0 the power of either driver
\* channel never exceeds the power limit in magnitude, whatever set_motor_power,
\* stop, halt, brake, ahead, astern and _compute have done; a level beyond the
\* limit is dropped, not clamped: the channel keeps the power it had.
C1_PowerWithinLimit ==
    /\ \A c \in {1, 2} : Abs(tb[c]) <= MotorPowerLimit
    /\ (last.op \in PowerRequests /\ Abs(last.arg) > MotorPowerLimit)
           => /\ last.res \in {"too_high", "too_low"}
              /\ tb[Channel(last.m)] = last.pre

\* a _compute tick asks for more than the limit while the motor is driven
C1_Witness ==
    /\ last.op = "_compute"
    /\ last.arg > MotorPowerLimit
    /\ last.res = "too_high"
    /\ tb[Channel(last.m)] > 0

\* C2 as stated: set_motor_power(level) with |level| beyond the limit issues
\* no command, leaves the whole motor state unchanged, and the caller
\* receives a rejection, something an accepted call does not return.
C2_RejectionReturned ==
    [][(last'.op = "set_motor_power" /\ Abs(last'.arg) > MotorPowerLimit)
           => /\ UNCHANGED <<tb, max_power, max_driving_power, steps, steps_begin,
                             velocity, max_velocity, interrupt>>
              /\ last'.ret # PowerReturn("set")]_vars

\* C2, amended: set_motor_power(level) with |level| beyond the limit issues no
\* command and leaves the whole motor state unchanged; the rejection is
\* logged only, the call returns None as an accepted call does.
C2_RejectedUnchanged ==
    [][(last'.op = "set_motor_power" /\ Abs(last'.arg) > MotorPowerLimit)
           => /\ UNCHANGED <<tb, max_power, max_driving_power, steps, steps_begin,
                             velocity, max_velocity, interrupt>>
              /\ last'.res \in {"too_high", "too_low"}
              /\ last'.ret = "None"
              /\ last'.ret = PowerReturn("set")]_vars

\* a level beyond the limit is rejected on a motor that is being driven
C2_Witness ==
    /\ last.op = "set_motor_power"
    /\ last.arg < -MotorPowerLimit
    /\ last.res = "too_low"
    /\ last.pre # 0
    /\ tb[Channel(last.m)] = last.pre
    /\ max_power[last.m] > 0

\* the reading cur and the requested level have opposite signs and differ by
\* more than the jump threshold
Reversal(cur, level) ==
    /\ (cur > 0 /\ level < 0) \/ (cur < 0 /\ level > 0)
    /\ Abs(cur - level) > JumpThreshold

\* C3: set_motor_power(level) is rejected, with no command to the driver and
\* no change to the max trackers, whenever the current power it has read and
\* the level have opposite signs and differ by more than 0.3, in either
\* direction.
C3_ReversalRejected ==
    [][(last'.op = "set_motor_power" /\ Reversal(last'.cur, last'.arg))
           => /\ last'.res \in Rejections
              /\ tb' = tb
              /\ UNCHANGED <<max_power, max_driving_power>>]_vars

\* current power +0.5, level -0.2: rejected as a positive-negative jump
C3_Witness ==
    /\ last.op = "set_motor_power"
    /\ last.cur = 500
    /\ last.arg = -200
    /\ last.res = "pos_neg_jump"
    /\ tb[Channel(last.m)] = 500

\* C4: set_motor_power(level) with |level| within the limit, called right
\* after stop() on the same motor, is never rejected, whatever the power was
\* before the stop; on a motor whose power ratio is set it commands
\* level * ratio.
C4_AcceptedAfterStop ==
    [][(/\ last.op = "stop"
        /\ last'.op = "set_motor_power"
        /\ last'.m = last.m
        /\ Abs(last'.arg) <= MotorPowerLimit)
           => /\ last'.res \notin Rejections
              /\ max_power_ratio[last.m] # Unset
                     => /\ last'.res = "set"
                        /\ tb'[Channel(last.m)] = DrivingPower(last.m, last'.arg)]_vars

\* a reversal by more than the threshold, accepted because of the stop between
C4_Witness ==
    /\ last.op = "set_motor_power"
    /\ last.prev = "stop"
    /\ last.prevm = last.m
    /\ last.prevpre > 0
    /\ last.arg < 0
    /\ last.prevpre - last.arg > JumpThreshold
    /\ last.res = "set"
    /\ tb[Channel(last.m)] < 0

\* C5: stop() puts zero power on the motor's channel, whatever the state, and
\* changes nothing else: not the other channel, the step count, the velocity,
\* the step-begin marker, the max trackers or the interrupt flag.
C5_StopFrame ==
    [][last'.op = "stop"
           => /\ tb' = [tb EXCEPT ![Channel(last'.m)] = 0]
              /\ UNCHANGED <<max_power, max_driving_power, steps, steps_begin,
                             velocity, max_velocity, interrupt, max_power_ratio,
                             orientation>>]_vars

\* stop() of a driven, turning motor while the other motor is driven too
C5_Witness ==
    /\ last.op = "stop"
    /\ last.pre # 0
    /\ tb[Channel(last.m)] = 0
    /\ tb[3 - Channel(last.m)] # 0
    /\ steps[last.m] # 0
    /\ max_power[last.m] > 0

\* C6: whenever halt() or brake() returns normally, its ramp complete or cut
\* short by an interrupt, the driver power of the motor's channel is zero.
C6_HaltBrakeZero ==
    (last.op \in {"halt", "brake"} /\ last.ret = "None")
        => tb[Channel(last.m)] = 0

\* C7: after the static cancel() on motors that were constructed with a
\* driver handle, both channels of the driver are at zero power.
C7_CancelStopsBoth ==
    (last.op = "cancel" /\ TB = "tb") => (tb[1] = 0 /\ tb[2] = 0)

\* C8: an interrupt() on a motor inside the loop of its step_to run ends the
\* run after at most one further _compute tick: the loop leaves at its test
\* of the flag, step_to returns normally, the step count stays as
\* accumulated, and the flag is false once step_to has returned.
C8_InterruptEndsRun ==
    /\ [](\A m \in Motors : run[m].late <= 1)
    /\ []((last.op = "step_to" /\ last.ret = "None") => ~interrupt[last.m])
    /\ [][\A m \in Motors :
            /\ (run[m].pc = "wait" /\ interrupt[m] /\ run'[m] # run[m])
                   => (run'[m].pc = "exit" /\ run'[m].res = "interrupted")
            /\ (run[m].pc = "exit" /\ run[m].res = "interrupted" /\ run'[m] # run[m])
                   => /\ last'.op = "step_to"
                      /\ last'.ret = "None"
                      /\ steps'[m] = steps[m]
                      /\ ~interrupt'[m]]_vars

\* a run interrupted before its goal has returned: one tick was made with the
\* flag set, the steps made so far are kept, the flag is false
C8_Witness ==
    /\ last.op = "step_to"
    /\ last.res = "interrupted"
    /\ last.ret = "None"
    /\ run[last.m].late = 1
    /\ steps[last.m] # 0
    /\ steps[last.m] # step_limit[last.m]
    /\ ~interrupt[last.m]

\* C9: with PORT and STBD each in a step_to run, interrupt() on one motor
\* changes neither the other motor's interrupt flag, step count, step limit
\* and PID accumulators nor its run; a run leaves its loop as interrupted
\* only when its own motor's flag is set, and a flag is set only by an
\* interrupt() on its own motor.
C9_InterruptIsPerMotor ==
    [][\A m \in Motors :
        /\ (last'.op = "interrupt" /\ last'.m # m)
               => /\ interrupt'[m] = interrupt[m]
                  /\ steps'[m] = steps[m]
                  /\ step_limit'[m] = step_limit[m]
                  /\ last_error'[m] = last_error[m]
                  /\ sum_errors'[m] = sum_errors[m]
                  /\ run'[m] = run[m]
        /\ (run[m].res # "interrupted" /\ run'[m].res = "interrupted")
               => interrupt[m]
        /\ (~interrupt[m] /\ interrupt'[m])
               => (last'.op = "interrupt" /\ last'.m = m)]_vars

\* PORT's run has ended by its interrupt while STBD's run, one tick made,
\* is still in its loop with its flag clear
C9_Witness ==
    /\ last.op = "step_to"
    /\ last.m = "PORT"
    /\ last.res = "interrupted"
    /\ run["STBD"].pc \in {"test", "compute", "wait"}
    /\ run["STBD"].ticks >= 1
    /\ ~interrupt["STBD"]

\* the step count is short of the step limit in the direction of the run
ShortOfGoal(m) ==
    IF run[m].dir = "FORWARD" THEN steps[m] < step_limit[m]
    ELSE steps[m] > step_limit[m]

\* C10: step_to makes a _compute tick only in an iteration whose test found
\* is_enabled() true and the goal not reached; and when the encoder has
\* delivered exactly n pulses in the commanded direction since the goal was
\* set, step_to returns with the step count at start + n (start - n in
\* reverse) and is_stepping false.
C10_StepsToGoal ==
    /\ [](\A m \in Motors :
            (/\ last.op = "step_to" /\ last.m = m /\ last.ret = "None"
             /\ run[m].dir = ledger[m].dir
             /\ ledger[m].toward = ledger[m].n /\ ledger[m].away = 0)
                => /\ steps[m] = IF run[m].dir = "FORWARD"
                                 THEN ledger[m].origin + ledger[m].n
                                 ELSE ledger[m].origin - ledger[m].n
                   /\ ~ShortOfGoal(m)
                   /\ ~IsStepping(m, run[m].dir))
    /\ [][\A m \in Motors :
            /\ (run[m].pc # "compute" /\ run'[m].pc = "compute")
                   => /\ run[m].pc = "test"
                      /\ last'.op = "step_to_test"
                      /\ last'.ret = "True"
                      /\ ShortOfGoal(m)
            /\ run'[m].ticks > run[m].ticks
                   => (run[m].pc = "compute" /\ last'.op = "step_to_tick")]_vars

\* a forward run of n steps has returned at its goal after ticks, the encoder
\* having delivered exactly n pulses forward
C10_Witness ==
    /\ last.op = "step_to"
    /\ last.res = "goal"
    /\ run[last.m].dir = "FORWARD"
    /\ ledger[last.m].dir = "FORWARD"
    /\ ledger[last.m].toward = ledger[last.m].n
    /\ ledger[last.m].away = 0
    /\ run[last.m].ticks >= 1
    /\ steps[last.m] = ledger[last.m].origin + ledger[last.m].n
    /\ tb[Channel(last.m)] # 0

\* C11: a step_to run with target STOP on a motor at velocity 0, its goal not
\* reached, leaves its loop right after its first no-change tick, forward
\* and in reverse.
C11_StallEndsRun ==
    [][\A m \in Motors :
        (/\ run[m].pc = "compute"
         /\ run[m].target = 0
         /\ velocity[m] = 0
         /\ last'.op = "step_to_tick"
         /\ last'.m = m
         /\ last'.ret = "False")
            => run'[m].pc = "exit"]_vars

\* C12: set_step_limit(FORWARD, n) sets the step limit to the step count
\* plus n, set_step_limit(REVERSE, n) to the step count minus n, and changes
\* nothing else; a pulse of the encoder does not move the limit; and
\* is_stepping(direction) returns steps < step_limit forward, steps >
\* step_limit in reverse, and changes no state.
C12_StepLimitAbsolute ==
    [][\A m \in Motors :
        /\ (last'.op = "set_step_limit" /\ last'.m = m)
               => /\ step_limit'[m] = IF last'.res = "FORWARD"
                                      THEN steps[m] + last'.arg
                                      ELSE steps[m] - last'.arg
                  /\ UNCHANGED <<tb, steps, steps_begin, velocity, max_velocity,
                                 interrupt, last_error, sum_errors>>
        /\ last'.op = "callback_step_count" => step_limit' = step_limit
        /\ (last'.op = "is_stepping" /\ last'.m = m)
               => /\ last'.ret = Py(IF last'.res = "FORWARD"
                                    THEN steps[m] < step_limit[m]
                                    ELSE steps[m] > step_limit[m])
                  /\ UNCHANGED <<tb, steps, steps_begin, velocity, max_velocity,
                                 interrupt, last_error, sum_errors, step_limit,
                                 max_power, max_driving_power>>]_vars

\* a limit set in reverse from a count other than 0 and a pulse after it:
\* the limit has stayed and is_stepping(REVERSE) compares the new count to it
C12_Witness ==
    /\ last.op = "is_stepping"
    /\ last.res = "REVERSE"
    /\ last.ret = "True"
    /\ ledger[last.m].origin # 0
    /\ ledger[last.m].dir = "REVERSE"
    /\ steps[last.m] # ledger[last.m].origin
    /\ step_limit[last.m] = ledger[last.m].origin - ledger[last.m].n
    /\ steps[last.m] > step_limit[last.m]

\* what get_current_power_level does, apart from the value it returns after
\* a reading: at most 20 reads, the first available reading returned, 0.0
\* returned when all 20 reads report None, a number in every case, nothing
\* written to the driver or the motor
ReadContract ==
    /\ last'.reads >= 1
    /\ last'.reads <= RetryLimit
    /\ last'.arg < RetryLimit
           => /\ last'.res = "read"
              /\ last'.reads = last'.arg + 1
              /\ last'.cur = tb[Channel(last'.m)]
    /\ last'.arg >= RetryLimit
           => /\ last'.res = "fallback"
              /\ last'.cur = 0
    /\ last'.cur \in Int
    /\ UNCHANGED <<tb, max_power, max_driving_power, steps, velocity, interrupt>>

\* C13 as stated: get_current_power_level ends after at most 20 reads,
\* returns the first available reading, never an undefined value, writes
\* nothing to the driver, and returns 0.0 if and only if all 20 reads report
\* 'not yet available'.
C13_ZeroOnlyWhenUnreadable ==
    [][last'.op = "get_current_power_level"
           => /\ ReadContract
              /\ last'.cur = 0 <=> last'.arg >= RetryLimit]_vars

\* C13, amended: the same, but 0.0 is returned if all 20 reads report 'not
\* yet available' and also when the first available reading is 0.0 itself.
C13_ReadWithinBudget ==
    [][last'.op = "get_current_power_level"
           => /\ ReadContract
              /\ last'.cur = 0 <=>
                     (last'.arg >= RetryLimit \/ tb[Channel(last'.m)] = 0)]_vars

\* the 20th read of a driven motor answers: its reading is returned
C13_Witness ==
    /\ last.op = "get_current_power_level"
    /\ last.arg = RetryLimit - 1
    /\ last.reads = RetryLimit
    /\ last.res = "read"
    /\ last.cur # 0
    /\ last.cur = tb[Channel(last.m)]

\* C14: a call of halt, brake, ahead or astern whose read of the driver gets
\* no reading within the 20 reads fails with an error and starts no ramp: no
\* power command follows from it.
C14_UnreadableIsFatal ==
    [][\A m \in Motors, op \in {"halt", "brake", "ahead", "astern"},
          s \in {0} \cup SpeedChoices :
        AccelerateCall(m, op, s, RetryLimit)
            => /\ last'.ret \in {"RuntimeError", "AttributeError"}
               /\ tb' = tb
               /\ acc'[m].pc = "idle"]_vars

\* C15: when stepAhead(speed, steps) with steps > 0 returns, the step count
\* has advanced by steps from the count at the call and the power of the
\* motor's channel is zero.
C15_StepAheadStopsAtGoal ==
    (last.op = "stepAhead" /\ last.ret = "None")
        => /\ steps[last.m] >= ledger[last.m].origin + ledger[last.m].n
           /\ tb[Channel(last.m)] = 0

\* C16: stepAstern(speed, steps) and astern(speed) with speed > 0, called on
\* a motor at rest, ramp to -speed/100 and every power level of the ramp is
\* less than or equal to zero.
C16_AsternIsBackwards ==
    [][\A m \in Motors :
        (/\ last'.op \in {"astern", "stepAstern"}
         /\ last'.m = m
         /\ last'.res = "ramping"
         /\ last'.arg > 0
         /\ tb[Channel(m)] = 0)
            => /\ acc'[m].speed = -last'.arg
               /\ \A i \in DOMAIN acc'[m].ramp : acc'[m].ramp[i] <= 0]_vars

\* C17: for every x of 0..100 that has a named setpoint strictly below it,
\* also an x equal to the value of a setpoint, get_slower_than(x) returns
\* the setpoint of the greatest value strictly below x.
C17_SlowerIsStrictlyBelow ==
    (/\ last.op = "get_slower_than"
     /\ \E v \in Velocities : VelocityValue(v) < last.arg)
        => /\ VelocityValue(last.res) < last.arg
           /\ \A v \in Velocities :
                  VelocityValue(v) < last.arg => VelocityValue(v) <= VelocityValue(last.res)

\* C18: equals_zero(x) is true for the values in the tolerance band around
\* 0.0, 0.001 and -0.001 among them, not only for 0.0 itself, and false for
\* 5.0.
C18_ZeroHasTolerance ==
    last.op = "equals_zero"
        => /\ Abs(last.arg) <= 1 => last.ret = "True"
           /\ Abs(last.arg) = 5000 => last.ret = "False"

\* C19: a Motor construction that fails with ValueError (null configuration,
\* null driver handle or null pi handle) registers no encoder callback and
\* changes nothing: not the module-level TB, not the driver, not any motor.
C19_FailedBuildNoEffect ==
    [][(last'.op = "Motor" /\ last'.ret = "ValueError")
          => /\ decoder' = decoder
             /\ UNCHANGED <<tb, TB, orientation, slew_enabled, max_power_ratio, powerVars, interrupt,
                            encVars, acc, pidVars>>]_vars

\* C20: set_step_limit, is_stepping and step_to called with a direction that
\* is neither FORWARD nor REVERSE, and step_to called with a target that is
\* not a Velocity, raise; the failed call leaves the step limit, the PID's
\* error terms, the driver's power, the slew limiter and the interrupt flag
\* as they were.
C20_BadArgumentNoEffect ==
    [][(/\ last'.op \in {"set_step_limit", "is_stepping", "step_to_call"}
        /\ last'.res \in {"None", "not_velocity"})
          => /\ last'.ret = "Exception"
             /\ UNCHANGED <<step_limit, last_error, sum_errors, tb, powerVars,
                            slew_enabled, interrupt, run>>]_vars

\* C21: with a driver that answers, is_in_motion() returns True exactly when
\* the driver power of the motor is non-zero, ahead or astern, and
\* is_stopped() returns True exactly when is_in_motion() would return False.
C21_InMotionEitherDirection ==
    /\ (last.op = "is_in_motion" /\ last.arg = 0)
           => (last.ret = "True" <=> tb[Channel(last.m)] # 0)
    /\ last.op = "is_stopped"
           => (last.ret = "True" <=> ~IsInMotion(last.m, last.arg))

\* C22: a _compute tick with non-zero error requests current_power +
\* clip(P + I + D), P = kp * error, I = ki * sum_error and D = kd * last_error
\* with the accumulators of before the tick and 0 for a disabled term; after
\* it last_error is the error, sum_error has grown by the error, and the tick
\* returns changed = True.
C22_TickCorrection ==
    [][\A m \in Motors, t \in TargetChoices :
        (/\ ComputeCall(m, t, 0, 0)
         /\ max_power_ratio[m] # Unset
         /\ t - velocity[m] # 0)
            => /\ last'.arg =
                      MulDiv(tb[Channel(m)], 1000, max_power_ratio[m])
                      + Clip((IF enable_p THEN Kp * (t - velocity[m]) ELSE 0)
                             + (IF enable_i THEN Ki * sum_errors[m] ELSE 0)
                             + (IF enable_d THEN Kd * last_error[m] ELSE 0))
               /\ last_error'[m] = t - velocity[m]
               /\ sum_errors'[m] = sum_errors[m] + (t - velocity[m])
               /\ last'.ret = "True"]_vars

\* a tick with non-zero error made on accumulators that earlier ticks left
\* different from each other, the derivative term disabled
C22_Witness ==
    /\ last.op = "_compute" /\ last.ret = "True"
    /\ ~enable_d /\ enable_p /\ enable_i
    /\ last_error["PORT"] # 0
    /\ sum_errors["PORT"] # last_error["PORT"]

\* C23: a _compute tick whose error passes the zero test applies no
\* correction: it commands power 0 if and only if its target is exactly zero
\* and commands nothing otherwise; last_error becomes 0, sum_error is
\* unchanged and the tick returns changed = False.
C23_TickNoCorrection ==
    [][\A m \in Motors, t \in TargetChoices :
        (/\ ComputeCall(m, t, 0, 0)
         /\ max_power_ratio[m] # Unset
         /\ EqualsZero(t - velocity[m]))
            => /\ last'.res = "no_command" <=> t # 0
               /\ t = 0 => last'.arg = 0
               /\ t # 0 => tb' = tb
               /\ last_error'[m] = 0
               /\ sum_errors'[m] = sum_errors[m]
               /\ last'.ret = "False"]_vars

\* a tick at the non-zero target velocity, after a tick that accumulated an
\* error: nothing commanded, the driver still at the power of the first tick
C23_Witness ==
    /\ last.op = "_compute" /\ last.ret = "False" /\ last.res = "no_command"
    /\ velocity["PORT"] = VelocitySlow
    /\ sum_errors["PORT"] # 0 /\ last_error["PORT"] = 0
    /\ tb[Channel("PORT")] # 0

\* the current power a tick computed from: the driver power before the tick
\* over the power ratio
TickCurrentPower == MulDiv(last.pre, 1000, max_power_ratio[last.m])

\* the last call is a _compute tick that commanded a power level
TickCommanded ==
    /\ last.op \in {"_compute", "step_to_tick"}
    /\ last.res \notin {"no_command", "AttributeError"}

\* C24 as stated: in every _compute tick the power level requested differs
\* from the current power by at most clip_limit.
C24_EveryTickWithinClip ==
    TickCommanded => Abs(last.arg - TickCurrentPower) <= ClipLimit

\* C24, amended: in every _compute tick that applies a correction the power
\* level requested differs from the current power by at most clip_limit,
\* and with only P enabled it lies from the current power in the direction
\* of the error.
C24_CorrectionWithinClip ==
    (TickCommanded /\ last.ret = "True")
        => /\ Abs(last.arg - TickCurrentPower) <= ClipLimit
           /\ (enable_p /\ ~enable_i /\ ~enable_d)
                  => /\ last_error[last.m] > 0 => last.arg > TickCurrentPower
                     /\ last_error[last.m] < 0 => last.arg < TickCurrentPower

\* a second correction with only P enabled, its output held at the clip
C24_Witness ==
    /\ TickCommanded /\ last.ret = "True"
    /\ enable_p /\ ~enable_i /\ ~enable_d
    /\ calls >= 2
    /\ Abs(last.arg - TickCurrentPower) = ClipLimit

\* C25: at the first _compute tick of every step_to run last_error and
\* sum_error are both zero, whatever earlier runs on the same PID
\* accumulated.
C25_RunStartsFromZero ==
    \A m \in Motors :
        (run[m].pc = "compute" /\ run[m].ticks = 0)
            => (last_error[m] = 0 /\ sum_errors[m] = 0)

\* the sign of the table: + for (PORT, encoder not reversed) and (STBD,
\* encoder reversed), - for (STBD, not reversed) and (PORT, reversed)
TableSign(m) ==
    IF (orientation[m] = "PORT") = ~reverse_encoder_orientation THEN 1 ELSE -1

\* C26: after any sequence of encoder callbacks the step count is its
\* initial value, 0, plus the sign of the table times the sum of the pulses;
\* the reverse-encoder flag negates it.
C26_StepsAreSignedSum ==
    \A m \in Motors : steps[m] = TableSign(m) * ledger[m].pulses

\* two pulses of +1 counted down: PORT with the encoder reversed, and STBD
\* with the encoder as wired
C26_Witness ==
    /\ ledger["PORT"].pulses = 2
    /\ steps["PORT"] = -2
    /\ (orientation["PORT"] = "PORT") = reverse_encoder_orientation

\* C27: the encoder callback is the only writer of the step count: under
\* every interleaving of the callbacks with the other operations of the
\* motor, the step count is the signed sum of the pulses delivered so far.
C27_CallbackIsOnlyWriter ==
    /\ [](\A m \in Motors : steps[m] = TableSign(m) * ledger[m].pulses)
    /\ [][\A m \in Motors :
             steps'[m] # steps[m] => (last'.op = "callback_step_count" /\ last'.m = m)]_vars

\* C28: at every encoder callback at which the step count is a multiple of
\* sample_rate the step-begin snapshot becomes the step count and, except at
\* the first such callback after construction, the velocity is estimated
\* anew from the steps made since the snapshot; at every other callback the
\* velocity is unchanged.
C28_EstimateAtEveryBoundary ==
    [][\A m \in Motors :
        (last'.op = "callback_step_count" /\ last'.m = m)
            => IF steps'[m] % SampleRate = 0
               THEN /\ steps_begin'[m] = steps'[m]
                    /\ ledger[m].windows > 0
                           => \E v \in SpeedMeasured :
                                  velocity'[m] = Measured(steps'[m] - steps_begin[m], v)
               ELSE velocity'[m] = velocity[m]]_vars

\* C29: an accepted power command raises max_power to the magnitude of its
\* level and max_driving_power to the magnitude of its driving power, if
\* these are larger, for levels of either sign; a rejected command changes
\* neither tracker; no step lowers max_power, max_driving_power or
\* max_velocity.
C29_TrackersHoldMagnitudes ==
    [][\A m \in Motors :
        /\ (last'.op = "set_motor_power" /\ last'.m = m)
               => IF last'.res = "set"
                  THEN /\ max_power'[m] = Max(Abs(last'.arg), max_power[m])
                       /\ max_driving_power'[m] =
                              Max(Abs(DrivingPower(m, last'.arg)), max_driving_power[m])
                  ELSE UNCHANGED <<max_power, max_driving_power, max_velocity>>
        /\ max_power'[m] >= max_power[m]
        /\ max_driving_power'[m] >= max_driving_power[m]
        /\ max_velocity'[m] >= max_velocity[m]]_vars

\* C30: the velocity, max_velocity and the power trackers of a motor are
\* written only by the ticks of its control loop; an encoder callback
\* writes the step count and its snapshot and never the velocity.
C30_CallbackLeavesVelocity ==
    [][\A m \in Motors :
        /\ <<velocity[m], max_velocity[m], max_power[m], max_driving_power[m]>>'
               # <<velocity[m], max_velocity[m], max_power[m], max_driving_power[m]>>
               => (last'.m = m /\ last'.op \in {"step_to_tick", "_compute"})
        /\ (last'.op = "callback_step_count" /\ last'.m = m)
               => (velocity'[m] = velocity[m] /\ max_velocity'[m] = max_velocity[m])]_vars

\* C31: once set, the interrupt flag of a motor is cleared by no operation
\* but reset_interrupt(), called by the user or by step_to on its exit.
C31_OnlyResetClears ==
    [][\A m \in Motors :
        (interrupt[m] /\ ~interrupt'[m])
            => (last'.m = m /\ last'.op \in {"reset_interrupt", "step_to"})]_vars

\* C32: under every interleaving of halt() or brake() with a step_to run
\* active on the same motor, the motor's driver power is zero at the moment
\* halt() or brake() returns.
C32_OverrideIsSafe ==
    (last.op \in {"halt", "brake"} /\ last.ret = "None") => tb[Channel(last.m)] = 0
\* C33: with slew enabled in the configuration, a step_to run that is about
\* to tick has its limiter enabled, started and set to the slew_rate of that
\* call, every tick passes the slewed target to _compute and the return of
\* the run resets the limiter to 0.0; with slew disabled every tick passes
\* the raw target and the limiter is never touched.
C33_SlewPerRun ==
    /\ [](\A m \in Motors :
            /\ (enable_slew /\ run[m].pc = "compute")
                   => /\ slew_enabled[m]
                      /\ slewlimiter[m].started
                      /\ slewlimiter[m].rate = run[m].slew_rate
            /\ ~enable_slew => (slewlimiter[m] = SlewIdle /\ ~slew_enabled[m]))
    /\ [][\A m \in Motors :
            /\ (last'.op = "step_to_tick" /\ last'.m = m)
                   => run'[m].passed =
                          IF enable_slew
                          THEN Shape(run[m].slew_rate, GetVelocity(m), run[m].target)
                          ELSE run[m].target
            /\ (enable_slew /\ run[m].pc = "exit" /\ run'[m].pc = "idle")
                   => slewlimiter'[m].baseline = "0.0"]_vars
\* C34: the motor constructed as PORT commands and reads channel 1 of the
\* driver and the one constructed as STBD channel 2, the other way round
\* under reverse_motor_orientation, so the two never share a channel; and
\* set_motor_power, stop, halt, brake and accelerate on one motor, like its
\* power read, leave the power of the other motor's channel as it was.
C34_OwnChannelOnly ==
    /\ [](\A m \in Motors :
            Channel(m) = IF (m = "PORT") # reverse_motor_orientation THEN 1 ELSE 2)
    /\ [][\A m \in Motors :
            last'.m = m =>
                LET own == IF (m = "PORT") # reverse_motor_orientation THEN 1 ELSE 2
                IN  /\ tb'[3 - own] = tb[3 - own]
                    /\ last'.op = "get_current_power_level" => last'.cur = tb[own]]_vars

\* a ramp of one motor has raised the power of its own channel while the
\* other motor's channel stays driven at another power
C34_Witness ==
    /\ last.op \in {"ahead", "halt", "brake"}
    /\ tb[Channel(last.m)] # 0
    /\ tb[3 - Channel(last.m)] # 0
    /\ tb[1] # tb[2]
\* C35: over every sequence of switch readings read_state has called
\* enable() once for each off-to-on change of the switch and disable() once
\* for each on-to-off change, and neither for a reading equal to the one
\* before; the ROS is created at most once and an enable() that finds it only
\* un-suppresses its arbitrator; and after every read_state that returned the
\* LED shows the switch state.
C35_EnableOncePerChange ==
    /\ [](/\ rosd.enables = rosd.ups
          /\ rosd.disables = rosd.downs
          /\ rosd.created <= 1
          /\ rosd.pc = "loop" => rosd.led = rosd.prev)
    /\ [][(rosd.ros = "ROS" /\ rosd'.enables = rosd.enables + 1)
              => (rosd'.created = rosd.created /\ ~rosd'.suppressed)]_vars

\* the switch went on, off and on again, with readings in between that
\* repeated the one before: the one ROS has its arbitrator un-suppressed
C35_Witness ==
    /\ rosd.application = "ros"
    /\ rosd.pc = "loop"
    /\ rosd.reads > rosd.ups + rosd.downs
    /\ rosd.enables = 2
    /\ rosd.disables = 1
    /\ rosd.created = 1
    /\ rosd.led
    /\ ~rosd.suppressed
\* C36: however many times and from however many callers close() is called,
\* concurrently or not, the shutdown sequence of a ROS instance has run at
\* most once, and a call that finds the instance closing returns without
\* changing anything.
C36_ShutdownOnce ==
    /\ [](ros.shutdowns <= 1)
    /\ [][\A t \in Closers :
            (ros.closing /\ ros.pc[t] = "idle" /\ ros'.n[t] = ros.n[t] + 1)
                => (ros'.pc = ros.pc /\ ros'.shutdowns = ros.shutdowns
                    /\ ros'.closing = ros.closing /\ ros'.active = ros.active)]_vars
\* C37: step_to commands the driver only in its _compute ticks: its entry,
\* its loop test, its wait and its return, for whatever reason it returns,
\* leave the driver power as the last tick left it, and the return leaves
\* the step limit, the enabled PID terms and the step count unchanged.
C37_ExitKeepsPower ==
    [][\A m \in Motors :
          /\ (run'[m] # run[m] /\ run[m].pc # "compute") => tb' = tb
          /\ (run[m].pc = "exit" /\ run'[m].pc = "idle")
                => /\ tb' = tb
                   /\ step_limit' = step_limit
                   /\ steps' = steps
                   /\ UNCHANGED <<enable_p, enable_i, enable_d, last_error,
                                  sum_errors>>]_vars

\* a run that ticked, was interrupted and has returned with the motor still
\* driven and steps counted
C37_Witness ==
    /\ last.op = "step_to"
    /\ last.res = "interrupted"
    /\ run[last.m].pc = "idle"
    /\ run[last.m].ticks > 0
    /\ tb[Channel(last.m)] # 0
    /\ steps[last.m] # 0
\* C38: a _compute tick whose power level set_motor_power rejects, as out of
\* bounds or as a reversal jump, still returns True, still stores its error
\* as the last error and still adds it to the sum of errors, while the driver
\* keeps its power.
C38_RejectedTickAccumulates ==
    [][\A m \in Motors, t \in TargetChoices, f1 \in FailChoices, f2 \in FailChoices :
          (ComputeCall(m, t, f1, f2) /\ last'.res \in Rejections)
              => /\ last'.ret = "True"
                 /\ last_error'[m] = t - velocity[m]
                 /\ sum_errors'[m] = sum_errors[m] + (t - velocity[m])
                 /\ tb' = tb]_vars

\* a tick whose level was rejected on a driven motor, after a tick that had
\* already accumulated an error
C38_Witness ==
    /\ last.op = "_compute"
    /\ last.res \in Rejections
    /\ tb[Channel(last.m)] # 0
    /\ last_error[last.m] # 0
    /\ sum_errors[last.m] = 2 * last_error[last.m]
\* C39: in every reachable state, those where the driver reports no power
\* for the whole retry budget included, no power request commands the driver
\* to a power of the sign opposite to the power the channel carries and more
\* than 0.3 away from it.
C39_InterlockOnAppliedPower ==
    [][\A m \in Motors :
          (last'.m = m /\ last'.op \in PowerRequests)
              => ~Reversal(tb[Channel(m)], tb'[Channel(m)])]_vars
\* C40: enable() on an open gamepad whose event-loop thread is alive leaves
\* the gamepad enabled and that thread running; no instance ever starts more
\* than one event-loop thread; and once close() has run no enable() makes
\* is_enabled() true again.
C40_EnableIdempotent ==
    /\ (gamepad.op = "enable" /\ gamepad.looping /\ ~gamepad.closed)
           => (gamepad.enabled /\ gamepad.thread = "alive")
    /\ gamepad.started <= 1
    /\ gamepad.closed => ~gamepad.enabled

====
